---------------------------- MODULE Spec2Model ----------------------------
(***************************************************************************)
(* A model of ratinabox/Neurons.py: one population of Neurons bound to one *)
(* Agent.  The population's fields (n, firingrate, noise, history) and the *)
(* Agent fields it reads are the state; update(), reset_history() and the  *)
(* Agent's own step are the actions.  The subclasses' constructors and     *)
(* get_state in its three modes follow, with the Environment they read.    *)
(*                                                                         *)
(* Numbers.  Rates and noise are integers (Hz).  The time step is          *)
(* dt = 1/DtInv s and the noise coherence time 1/CoherenceInv s; a uniform  *)
(* sample in [0,1) is u/UDen with u in 0..UDen-1.  NaN is a value apart:    *)
(* arithmetic on it gives NaN and every comparison with it is false.       *)
(* The models with a continuous response work in units of 1/One.           *)
(***************************************************************************)
EXTENDS Integers, Sequences, FiniteSets

\* ---------------------------------------------------------------- bounds
\* history is unbounded in the code; update() is explored while it is shorter
MaxHist == 2
\* Agent.t is unbounded in the code; the Agent steps while t < MaxT
MaxT == 1
\* largest 'n' a parameter dictionary carries, and largest number of centres
MaxN == 2
\* the environment's positions are the grid 0..MaxCoord (x 0..1 in 2D)
MaxCoord == 2

\* ------------------------------------------------------------- constants
NaN == -1000
DtInv == 2
CoherenceInv == 2
UDen == 2
speed_mean == 1
speed_std == 1

IsNaN(x) == x = NaN
Plus(a, b) == IF IsNaN(a) \/ IsNaN(b) THEN NaN ELSE a + b
Times(a, b) == IF IsNaN(a) \/ IsNaN(b) THEN NaN ELSE a * b
Less(a, b) == ~IsNaN(a) /\ ~IsNaN(b) /\ a < b
Abs(x) == IF IsNaN(x) THEN NaN ELSE IF x < 0 THEN -x ELSE x
Sign(x) == IF IsNaN(x) THEN NaN ELSE IF x > 0 THEN 1 ELSE IF x < 0 THEN -1 ELSE 0
Max0(x) == IF IsNaN(x) THEN NaN ELSE IF x > 0 THEN x ELSE 0

\* np.zeros(k)
Zeros(k) == [i \in 1..k |-> 0]

\* numpy broadcasting of two 1-d shapes; 0 stands for "operands could not be
\* broadcast together" (no population has length 0)
BroadcastLen(a, b) == IF a = b THEN a ELSE IF a = 1 THEN b ELSE IF b = 1 THEN a ELSE 0
At(v, i) == IF Len(v) = 1 THEN v[1] ELSE v[i]
\* v + w elementwise, broadcast
VecAdd(v, w) == [i \in 1..BroadcastLen(Len(v), Len(w)) |-> Plus(At(v, i), At(w, i))]

\* np.linalg.norm of an integer vector whose norm is an integer
SumSq(v) == IF Len(v) = 1 THEN v[1] * v[1] ELSE v[1] * v[1] + v[2] * v[2]
Norm(v) == CHOOSE r \in 0..(2 * (speed_mean + speed_std)) : r * r = SumSq(v)


\* ------------------------------------------------- the Agent (collaborator)
one_sigma_speed == speed_mean + speed_std

Coords == 0..MaxCoord
\* Agent.head_direction follows the velocity while the Agent moves
Heading(vel, old) ==
    IF Norm(vel) = 0 THEN old ELSE [i \in 1..Len(vel) |-> vel[i] \div Norm(vel)]

Origin(dim) == IF dim = "1D" THEN <<0>> ELSE <<0, 0>>
Undefined(dim) == IF dim = "1D" THEN <<NaN>> ELSE <<NaN, NaN>>

\* the Agent when the population is constructed: no step taken yet, at pos
AgentInit(dim, pos) ==
    [ pos |-> pos,
      velocity |-> IF dim = "1D" THEN <<one_sigma_speed>> ELSE <<one_sigma_speed, 0>>,
      head_direction |-> IF dim = "1D" THEN <<1>> ELSE <<1, 0>>,
      t |-> 0,
      history_vel |-> << >> ]

\* Agent.pos: one coordinate in 1D, two in 2D; any coordinate may be NaN
PosSet(dim) ==
    IF dim = "1D" THEN {<<x>> : x \in Coords \cup {NaN}}
    ELSE {<<x, 0>> : x \in Coords} \cup {<<NaN, NaN>>, <<NaN, 0>>, <<0, NaN>>}
\* Agent.velocity: speeds 0, one_sigma_speed and 2*one_sigma_speed
VelSet(dim) ==
    IF dim = "1D" THEN {<<-one_sigma_speed>>, <<0>>, <<one_sigma_speed>>}
    ELSE {<<0, 0>>, <<one_sigma_speed, 0>>, <<0, 2 * one_sigma_speed>>}
\* the steps an Agent takes: every position at the default velocity, every
\* velocity at the origin
AgentMoves(dim) ==
    {<<pos, AgentInit(dim, Origin(dim)).velocity>> : pos \in PosSet(dim)}
    \cup {<<Origin(dim), vel>> : vel \in VelSet(dim)}

\* Environment.get_distances_between___accounting_for_environment for one
\* centre and one position; an undefined coordinate gives an undefined distance
Distance(c, pos) ==
    IF Len(pos) = 1 THEN Abs(Plus(pos[1], -c[1]))
    ELSE IF IsNaN(pos[1]) \/ IsNaN(pos[2]) THEN NaN
    ELSE Abs(pos[1] - c[1]) + Abs(pos[2] - c[2])

\* ----------------------------------------------------- fixed-point numbers
\* The responses of the models with a continuous response (gaussian place
\* fields, vector cells) and the rates computed from them are in units of
\* 1/One; angles are whole degrees.
One == 10000
\* a float that is infinite
Inf == 100000

\* a * b of two numbers in units of 1/One
Mul(a, b) == IF IsNaN(a) \/ IsNaN(b) THEN NaN ELSE (a * b) \div One
\* a / b of two numbers in units of 1/One (0/0 is NaN; a positive number over
\* zero does not occur for the tunings below)
Quot(a, b) == IF IsNaN(a) \/ IsNaN(b) \/ b = 0 THEN NaN ELSE (a * One) \div b

RECURSIVE Series(_, _)
\* the series of exp(-t) from its term k on, as 1 - (t/k) (1 - (t/(k+1)) (...)),
\* cut after the term 6
Series(t, k) ==
    IF k > 6 THEN One ELSE One - (t * Series(t, k + 1)) \div (k * One)
RECURSIVE Squared(_, _)
Squared(v, times) ==
    IF times = 0 THEN v
    ELSE LET w == Squared(v, times - 1) IN (w * w) \div One
\* One * exp(-p/q) for p >= 0 and q > 0, as exp(-p/(16 q))^16
ExpNegOf(p, q) == Squared(Series((p * One) \div (16 * q), 1), 4)
\* the values of 2 sigma^2, sigma^2 and 2 (ratio width)^2 the models divide by
Divisors == {1, 2, 18}
ExpNegTable ==
    [x \in UNION {{<<p, q>> : p \in 0..(8 * q)} : q \in Divisors} |->
        ExpNegOf(x[1], x[2])]
\* np.exp(-p/q); it rounds to 0 beyond p/q = 8
ExpNeg(p, q) == IF p > 8 * q THEN 0 ELSE ExpNegTable[<<p, q>>]

RECURSIVE SumTo(_, _)
SumTo(s, k) == IF k = 0 THEN 0 ELSE Plus(s[k], SumTo(s, k - 1))
\* np.sum over one axis
SumSeq(s) == SumTo(s, Len(s))
\* np.max over one axis
MaxSeq(s) == CHOOSE m \in {s[k] : k \in DOMAIN s} : \A k \in DOMAIN s : s[k] <= m

\* cos and sin of a multiple of 90 degrees
Cos(deg) == CASE deg % 360 = 0 -> 1 [] deg % 360 = 180 -> -1 [] OTHER -> 0
Sin(deg) == CASE deg % 360 = 90 -> 1 [] deg % 360 = 270 -> -1 [] OTHER -> 0
\* utils.rotate: anticlockwise, by a multiple of 90 degrees
rotate(v, deg) ==
    <<v[1] * Cos(deg) - v[2] * Sin(deg), v[1] * Sin(deg) + v[2] * Cos(deg)>>
\* utils.get_angle of an axis direction, in degrees (0 for the zero vector)
get_angle(v) ==
    CASE v[1] > 0 -> 0 [] v[1] < 0 -> 180 [] v[2] > 0 -> 90 [] v[2] < 0 -> 270
      [] OTHER -> 0

\* utils.gaussian(x, mu, sigma, norm=1): exp(-(x - mu)^2 / (2 sigma^2))
gaussian(x, mu, sigma) ==
    IF IsNaN(x) THEN NaN
    ELSE IF x = Inf \/ x = -Inf THEN 0
    ELSE ExpNeg((x - mu) * (x - mu), 2 * sigma * sigma)
\* utils.von_mises(theta, mu, sigma, norm=1): exp((cos(theta - mu) - 1) / sigma^2)
von_mises(theta, mu, sigma) == ExpNeg(1 - Cos(theta - mu), sigma * sigma)

\* --------------------------------------------- the Environment (collaborator)
\* the 2D environment of the vector cells and place fields is the corridor
\* [0, Side] x [0, Height]; its inner grid points lie on the line y = 1, so
\* that distances and bearings between them are whole numbers and multiples of
\* 90 degrees
Side == 2 * MaxCoord
Height == 2
\* a wall is a pair of end points; the four boundary walls of a solid environment
BoundaryWalls ==
    << << <<0, 0>>, <<Side, 0>> >>, << <<Side, 0>>, <<Side, Height>> >>,
       << <<Side, Height>>, <<0, Height>> >>, << <<0, Height>>, <<0, 0>> >> >>
\* the walls Environment.add_wall is called with: the two halves of a partition
ExtraWalls ==
    { << <<2, 0>>, <<2, 1>> >>, << <<2, 1>>, <<2, Height>> >> }

\* the Environment after its construction
Environment__init__(dim, bc) ==
    [ dimensionality |-> dim, boundary_conditions |-> bc,
      walls |-> IF dim = "2D" /\ bc = "solid" THEN BoundaryWalls ELSE << >>,
      objects |-> << >>, object_types |-> << >> ]

\* Environment.discretise_environment(dx): the centres of the cells of side 2
discretise_environment == [k \in 1..MaxCoord |-> <<2 * k - 1, 1>>]
\* Environment.flattened_discrete_coords: the finer grid of the Environment's own dx
flattened_discrete_coords == [k \in 1..(Side - 1) |-> <<k, 1>>]

\* a fraction num/den with den >= 0; den = 0 is a float division by zero:
\* +inf, -inf or (0/0) NaN by the sign of num
Frac(num, den) == IF den < 0 THEN <<-num, -den>> ELSE <<num, den>>
FracLess(f, g) == f[1] * g[2] < g[1] * f[2]
\* the float a fraction stands for (whole, for walls along the axes)
Value(f) ==
    IF f[2] # 0 THEN f[1] \div f[2]
    ELSE IF f[1] > 0 THEN Inf ELSE IF f[1] < 0 THEN -Inf ELSE NaN

cross(u, v) == u[1] * v[2] - u[2] * v[1]
\* utils.vector_intercepts for the segment [a, a + d] and one wall: the
\* parameter along the segment and the parameter along the wall at which the
\* two lines meet
vector_intercepts(a, d, wall) ==
    LET c == wall[1]
        db == <<wall[2][1] - c[1], wall[2][2] - c[2]>>
        ca == <<c[1] - a[1], c[2] - a[2]>>
    IN << Frac(cross(ca, db), cross(d, db)), Frac(cross(ca, d), cross(d, db)) >>

\* firingrate * (max_fr - min_fr) + min_fr of one response in units of 1/One
Rescaled(p, x) == Plus(Times(x, p.max_fr - p.min_fr), p.min_fr * One)

\* ------------------------------------------------- place fields (continuous)
\* PlaceCells.get_state before the rescale for one cell at distance dist, for
\* the descriptions gaussian, gaussian_threshold and diff_of_gaussians
\* (ratio = 1.5: 1/ratio^2 = 4/9 and ratio^2/(ratio^2 - 1) = 9/5)
PlaceCells_firingrate(description, dist, width) ==
    IF IsNaN(dist) THEN NaN
    ELSE LET narrow == ExpNeg(dist * dist, 2 * width * width)
             wide == ExpNeg(4 * dist * dist, 18 * width * width)
         IN CASE description = "gaussian" -> narrow
              [] description = "gaussian_threshold" ->
                    Quot(Max0(narrow - ExpNeg(1, 2)), One - ExpNeg(1, 2))
              [] description = "diff_of_gaussians" ->
                    ((narrow - (4 * wide) \div 9) * 9) \div 5

\* ----------------------------------------------------- boundary vector cells
\* int(360 / self.dtheta)
n_test_angles(dtheta) == 360 \div dtheta
\* the angles the constructor collects: 0, then 2 pi i dtheta / 360 for every i
\* in range(n_test_angles - 1), in degrees
test_angles(dtheta) ==
    <<0>> \o [i \in 1..(n_test_angles(dtheta) - 1) |-> (i - 1) * dtheta]
\* the directions it collects with them: [1, 0], then [1, 0] rotated by each angle
test_directions(dtheta) ==
    << <<1, 0>> >> \o
    [i \in 1..(n_test_angles(dtheta) - 1) |-> rotate(<<1, 0>>, (i - 1) * dtheta)]

\* BoundaryVectorCells.boundary_vector_preference_function for one pair
\* x = (lam1, lam2): np.piecewise starts from zeros, writes 1/lam1 where
\* lam1 > 0 and then -1 where lam1 < 0, where lam2 < 0 and where lam2 > 1
boundary_vector_preference_function(x) ==
    IF x[1][1] < 0 \/ x[2][1] < 0 \/ x[2][1] > x[2][2] THEN <<-1, 1>>
    ELSE IF x[1][1] > 0 THEN <<x[1][2], x[1][1]>>
    ELSE <<0, 1>>

\* np.argmax: the first index of the largest preference
np_argmax(pref) ==
    CHOOSE k \in DOMAIN pref :
        /\ \A j \in DOMAIN pref : ~FracLess(pref[k], pref[j])
        /\ \A j \in 1..(k - 1) : FracLess(pref[j], pref[k])

\* the intercepts of the segment [pos, pos + d] with every wall
pos_lineseg_wall_intercepts(pos, d, walls) ==
    [w \in DOMAIN walls |-> vector_intercepts(pos, d, walls[w])]

first_wall_for_each_direction_id(x) ==
    np_argmax([w \in DOMAIN x |-> boundary_vector_preference_function(x[w])])

\* np.take_along_axis(dist_to_walls, first_wall_for_each_direction_id) at one
\* position: for each test direction, the ray parameter at the chosen wall (the
\* rays have length 1)
dist_to_first_wall(pos, directions, walls) ==
    [k \in DOMAIN directions |->
        LET x == pos_lineseg_wall_intercepts(pos, directions[k], walls)
        IN Value(x[first_wall_for_each_direction_id(x)][1])]

\* g.sum(axis=-1) for cell i at one position: gaussian of the distance to the
\* first wall times von Mises of the test angle (less the head bearing when
\* egocentric), summed over the test angles
BoundaryVectorCells_g(a, dist, head_bearing, i) ==
    LET shift == IF a.reference_frame = "egocentric" THEN head_bearing ELSE 0
    IN SumSeq([k \in DOMAIN a.test_angles |->
          Mul(gaussian(dist[k], a.tuning_distances[i], a.sigma_distances[i]),
              von_mises(a.test_angles[k] - shift, a.tuning_angles[i],
                        a.sigma_angles[i]))])

\* a constant taken from the first scanned position alone
scan_first(rates) == [i \in DOMAIN rates |-> rates[i][1]]
\* np.max(rates, axis=1)
scan_max(rates) == [i \in DOMAIN rates |-> MaxSeq(rates[i])]

\* the constants the scan of the walls would give: get_state at the scanned
\* positions while cell_fr_norm is all ones, then the maximum per cell
BoundaryVectorCells_scan(a, p, walls) ==
    LET locs == discretise_environment
        dist == [j \in DOMAIN locs |->
                    dist_to_first_wall(locs[j], a.test_directions, walls)]
    IN scan_max([i \in 1..a.n |-> [j \in DOMAIN locs |->
            Rescaled(p, Quot(BoundaryVectorCells_g(a, dist[j], 0, i), One))]])

\* a get_state that divides by the constants of a fresh scan
BoundaryVectorCells_norm_rescanned(a, p, walls) ==
    BoundaryVectorCells_scan(a, p, walls)
\* the constants get_state divides by: self.cell_fr_norm
BoundaryVectorCells_norm(a, p, walls) == a.cell_fr_norm

\* BoundaryVectorCells.get_state for a batch of positions: one row per cell
BoundaryVectorCells_rates(a, p, walls, batch, head_bearing) ==
    LET dist == [j \in DOMAIN batch |->
                    dist_to_first_wall(batch[j], a.test_directions, walls)]
        norm == BoundaryVectorCells_norm(a, p, walls)
    IN [i \in 1..a.n |-> [j \in DOMAIN batch |->
            Rescaled(p, Quot(BoundaryVectorCells_g(a, dist[j], head_bearing, i),
                             norm[i]))]]

\* ------------------------------------------------------- object vector cells
\* the summed response of cell i at pos without the tuning mask
ObjectVectorCells_response_unmasked(a, env, pos, head_bearing, i) ==
    LET shift == IF a.reference_frame = "egocentric" THEN head_bearing ELSE 0
    IN SumSeq([o \in DOMAIN env.objects |->
          Mul(gaussian(Distance(env.objects[o], pos),
                       a.tuning_distances[i], a.sigma_distances[i]),
              von_mises(get_angle(<<env.objects[o][1] - pos[1],
                                    env.objects[o][2] - pos[2]>>) - shift,
                        a.tuning_angles[i], a.sigma_angles[i]))])
\* the summed response of cell i at pos: gaussian of the distance to each object
\* times von Mises of its bearing times the tuning mask, summed over the objects
ObjectVectorCells_response(a, env, pos, head_bearing, i) ==
    LET shift == IF a.reference_frame = "egocentric" THEN head_bearing ELSE 0
    IN SumSeq([o \in DOMAIN env.objects |->
          LET tuning_mask == IF env.object_types[o] = a.tuning_types[i] THEN 1 ELSE 0
          IN Times(Mul(gaussian(Distance(env.objects[o], pos),
                                a.tuning_distances[i], a.sigma_distances[i]),
                       von_mises(get_angle(<<env.objects[o][1] - pos[1],
                                             env.objects[o][2] - pos[2]>>) - shift,
                                 a.tuning_angles[i], a.sigma_angles[i])),
                   tuning_mask)])

\* a get_state without the early return for an empty object list
ObjectVectorCells_rates_summed(a, p, env, batch, head_bearing) ==
    [i \in 1..a.n |-> [j \in DOMAIN batch |->
        Rescaled(p, ObjectVectorCells_response(a, env, batch[j], head_bearing, i))]]
\* ObjectVectorCells.get_state for a batch of positions: one row per cell
ObjectVectorCells_rates(a, p, env, batch, head_bearing) ==
    IF Len(env.objects) = 0
    THEN [i \in 1..a.n |-> [j \in DOMAIN batch |-> 0]]
    ELSE [i \in 1..a.n |-> [j \in DOMAIN batch |->
            Rescaled(p, ObjectVectorCells_response(a, env, batch[j], head_bearing, i))]]

\* ------------------------------------------------------------ parameters
Kinds == {"Neurons", "PlaceCells", "HeadDirectionCells", "SpeedCell"}
\* <<min_fr, max_fr>>
FrPairs == {<<0, 1>>, <<0, 2>>, <<1, 1>>}
\* explicit place_cell_centres arrays: the first k of these centres
CentreList == << <<0, 0>>, <<2, 0>>, <<1, 0>>, <<0, 1>> >>
CentreArrays == {SubSeq(CentreList, 1, k) : k \in 1..MaxN}

BaseParams(kind, dim, ns, frs) ==
    { [ kind |-> kind, dimensionality |-> dim, n |-> k, save_history |-> sh,
        noise_std |-> sd, min_fr |-> fr[1], max_fr |-> fr[2],
        description |-> "none", place_cell_centres |-> << >>, widths |-> 1 ] :
      k \in ns, sh \in BOOLEAN, sd \in {0, 1}, fr \in frs }

PlaceCellsParams(centres, frs, descriptions) ==
    { [p EXCEPT !.description = d, !.place_cell_centres = c] :
        p \in BaseParams("PlaceCells", "2D", {MaxN}, frs),
        d \in descriptions, c \in centres }

\* the parameter dictionaries populations are constructed with
ParamSets ==
    BaseParams("Neurons", "2D", {MaxN}, {<<0, 1>>})
    \cup BaseParams("SpeedCell", "2D", {1, MaxN}, {<<0, 2>>})
    \cup {p \in BaseParams("HeadDirectionCells", "1D", {MaxN}, {<<0, 1>>}) :
            p.noise_std = 0}
    \cup PlaceCellsParams({SubSeq(CentreList, 1, MaxN)}, {<<0, 2>>}, {"one_hot"})

\* place cells only, without noise, every rate range and both descriptions
PlaceCellsParamSets ==
    {p \in PlaceCellsParams(CentreArrays, FrPairs, {"one_hot", "top_hat"}) :
        p.noise_std = 0}

\* ---------------------------------------------------------- construction
EmptyHistory == [t |-> << >>, firingrate |-> << >>, spikes |-> << >>]

\* Neurons.__init__: the fields it leaves on the object
Neurons__init__(p) ==
    [ n |-> p.n, firingrate |-> Zeros(p.n), noise |-> Zeros(p.n),
      history |-> EmptyHistory, params |-> p ]

\* PlaceCells.__init__ with an array of centres: 'n' is overwritten by its length
PlaceCells__init__(p) ==
    Neurons__init__([p EXCEPT !.n = Len(p.place_cell_centres)])

\* HeadDirectionCells.__init__: two cells in 1D whatever 'n' was passed
HeadDirectionCells__init__(p) ==
    Neurons__init__([p EXCEPT !.n = IF p.dimensionality = "1D" THEN 2 ELSE p.n])

\* SpeedCell.__init__: the parent is initialised with the params as given, then
\* self.n = 1
SpeedCell__init__(p) ==
    [Neurons__init__(p) EXCEPT !.n = 1]

Construct(p) ==
    CASE p.kind = "PlaceCells" -> PlaceCells__init__(p)
      [] p.kind = "HeadDirectionCells" -> HeadDirectionCells__init__(p)
      [] p.kind = "SpeedCell" -> SpeedCell__init__(p)
      [] OTHER -> Neurons__init__(p)

\* ------------------------------------------------------------- the state
VARIABLES
    params,      \* the population's parameters (kind, min_fr, save_history, ...)
    n,           \* self.n
    firingrate,  \* self.firingrate
    noise,       \* self.noise
    history,     \* self.history: t, firingrate, spikes
    Agent,       \* the Agent fields the population reads
    ret,         \* the last call: which, what it raised, what get_state returned
    completed,   \* update() calls that returned since the last reset_history()
    discarded,   \* whether the last reset_history() emptied a non-empty history
    Environment, \* Agent.Environment: dimensionality, boundaries, walls, objects
    attrs        \* the fields the subclass constructor left on the population

vars == <<params, n, firingrate, noise, history, Agent, ret, completed, discarded,
          Environment, attrs>>

NoCall == [op |-> "construct", raised |-> "none", get_state_called |-> FALSE,
           state |-> << >>]

InitWith(ps) ==
    \E p \in ps :
      \E pos \in {Origin(p.dimensionality), Undefined(p.dimensionality)} :
        LET self == Construct(p) IN
        /\ params = self.params
        /\ n = self.n
        /\ firingrate = self.firingrate
        /\ noise = self.noise
        /\ history = self.history
        /\ Agent = AgentInit(p.dimensionality, pos)
        /\ ret = NoCall
        /\ completed = 0
        /\ discarded = FALSE
        /\ Environment = Environment__init__(p.dimensionality, "solid")
        /\ attrs = << >>

Init == InitWith(ParamSets)
InitPlaceCells == InitWith(PlaceCellsParamSets)

\* ----------------------------------------------------- firing-rate models
Ok(v) == [raised |-> "none", value |-> v]
Raise(e) == [raised |-> e, value |-> << >>]

\* firingrate * (max_fr - min_fr) + min_fr
Rescale(v) ==
    [i \in DOMAIN v |-> Plus(Times(v[i], params.max_fr - params.min_fr), params.min_fr)]

\* np.argmin: the first index of the smallest entry; a NaN entry counts as smallest
ArgMin(d) ==
    IF \E i \in DOMAIN d : IsNaN(d[i])
    THEN CHOOSE i \in DOMAIN d : IsNaN(d[i]) /\ \A j \in 1..(i - 1) : ~IsNaN(d[j])
    ELSE CHOOSE i \in DOMAIN d :
            /\ \A j \in DOMAIN d : d[i] <= d[j]
            /\ \A j \in 1..(i - 1) : d[j] > d[i]

\* distances from every centre to pos
Dist(pos) ==
    [i \in 1..n |-> Distance(params.place_cell_centres[i], pos)]

\* a one_hot that lets every cell at the smallest distance fire
PlaceCells_response_every_nearest(pos) ==
    LET dist == Dist(pos) IN
    [i \in 1..n |-> IF \A j \in 1..n : ~Less(Abs(dist[j]), Abs(dist[i])) THEN 1 ELSE 0]

\* PlaceCells.get_state before the rescale, descriptions one_hot and top_hat
PlaceCells_response(pos) ==
    LET dist == Dist(pos) IN
    IF params.description = "one_hot"
    THEN LET closest_centres == ArgMin([i \in 1..n |-> Abs(dist[i])])
         IN [i \in 1..n |-> IF i = closest_centres THEN 1 ELSE 0]
    ELSE [i \in 1..n |-> IF Less(dist[i], params.widths) THEN 1 ELSE 0]

PlaceCells_get_state(pos) == Ok(Rescale(PlaceCells_response(pos)))

\* HeadDirectionCells.get_state in 1D
HeadDirectionCells_get_state(head_direction) ==
    LET hdleft_fr == Max0(Sign(head_direction[1]))
        hdright_fr == Max0(Times(-1, Sign(head_direction[1])))
    IN Ok(Rescale(<<hdleft_fr, hdright_fr>>))

\* SpeedCell.get_state at the agent: reads Agent.history["vel"][-1]
SpeedCell_get_state ==
    IF Agent.history_vel = << >> THEN Raise("IndexError")
    ELSE LET speed == Norm(Agent.history_vel[Len(Agent.history_vel)])
         IN Ok(Rescale(<<speed \div one_sigma_speed>>))

\* a get_state that returns zeros where the base class raises
Neurons_get_state_zeros == Ok(Zeros(n))

\* Neurons.get_state
Neurons_get_state == Raise("NotImplementedError")

\* ------------------------------------------------- construction, continued
\* a constructor that returned (the fields of the parent class and those of
\* the subclass) and one that raised
Built(self, a) == [raised |-> "none", self |-> self, attrs |-> a]
Failed(e) == [raised |-> e, self |-> << >>, attrs |-> << >>]

\* the array a parameter holds: the list passed for it, or k sampled values
PerCell(param, k) == IF param.type = "list" THEN param.value ELSE Zeros(k)

\* a wall geometry that only looks at the number of walls
PlaceCells_wall_geometry_by_walls(requested, env) ==
    IF env.dimensionality = "2D" /\ requested = "geodesic" /\ Len(env.walls) > 5
    THEN "line_of_sight" ELSE requested
\* the wall geometry PlaceCells.__init__ leaves on the object
PlaceCells_wall_geometry(requested, env) ==
    IF env.dimensionality # "2D" THEN requested
    ELSE LET allowed == IF /\ requested \in {"line_of_sight", "geodesic"}
                           /\ env.boundary_conditions = "periodic"
                        THEN "euclidean" ELSE requested
         IN IF allowed = "geodesic" /\ Len(env.walls) > 5
            THEN "line_of_sight" ELSE allowed

\* PlaceCells.__init__ in an Environment
PlaceCells__init__in(p, env) ==
    Built(PlaceCells__init__(p),
          [wall_geometry |-> PlaceCells_wall_geometry(p.wall_geometry, env)])

\* a GridCells.__init__ that takes the lists as they come
GridCells__init__unchecked(p, env) ==
    LET k == IF p.gridscale.type = "list" THEN Len(p.gridscale.value) ELSE p.n
    IN IF env.dimensionality # "2D" THEN Failed("AssertionError")
       ELSE Built(Neurons__init__([p EXCEPT !.n = k]),
                  [ gridscales |-> PerCell(p.gridscale, k),
                    phase_offsets |-> PerCell(p.phase_offset, k),
                    orientations |-> PerCell(p.orientation, k) ])
\* GridCells.__init__: a list of gridscales sets 'n'; a list of phase offsets
\* and a list of orientations must have that length; then the Environment must
\* be 2D
GridCells__init__(p, env) ==
    LET k == IF p.gridscale.type = "list" THEN Len(p.gridscale.value) ELSE p.n
    IN IF p.phase_offset.type = "list" /\ Len(p.phase_offset.value) # k
       THEN Failed("AssertionError")
       ELSE IF p.orientation.type = "list" /\ Len(p.orientation.value) # k
       THEN Failed("AssertionError")
       ELSE IF env.dimensionality # "2D" THEN Failed("AssertionError")
       ELSE Built(Neurons__init__([p EXCEPT !.n = k]),
                  [ gridscales |-> PerCell(p.gridscale, k),
                    phase_offsets |-> PerCell(p.phase_offset, k),
                    orientations |-> PerCell(p.orientation, k) ])

\* VectorCells.set_tuning_parameters: the four arrays of the cell arrangement,
\* which must have one length
set_tuning_parameters(p) ==
    LET c == p.cell_arrangement IN
    IF /\ Len(c.tuning_distances) = Len(c.tuning_angles)
       /\ Len(c.tuning_angles) = Len(c.sigma_distances)
       /\ Len(c.sigma_distances) = Len(c.sigma_angles)
    THEN Ok(c) ELSE Raise("AssertionError")

\* VectorCells.__init__: 2D only; 'n' becomes the length of the tuning
\* distances, and firingrate and noise are allocated again
VectorCells__init__(p, env) ==
    IF env.dimensionality # "2D" THEN Failed("AssertionError")
    ELSE LET t == set_tuning_parameters(p) IN
         IF t.raised # "none" THEN Failed(t.raised)
         ELSE LET k == Len(t.value.tuning_distances) IN
              Built([Neurons__init__(p) EXCEPT
                        !.n = k, !.firingrate = Zeros(k), !.noise = Zeros(k)],
                    t.value)

\* BoundaryVectorCells.__init__: solid boundaries only; the test angles and
\* directions; then cell_fr_norm from a scan of the Environment as it is now
BoundaryVectorCells__init__(p, env) ==
    LET v == VectorCells__init__(p, env) IN
    IF v.raised # "none" THEN v
    ELSE IF env.boundary_conditions # "solid" THEN Failed("AssertionError")
    ELSE LET a == [ n |-> v.self.n,
                    tuning_distances |-> v.attrs.tuning_distances,
                    tuning_angles |-> v.attrs.tuning_angles,
                    sigma_distances |-> v.attrs.sigma_distances,
                    sigma_angles |-> v.attrs.sigma_angles,
                    reference_frame |-> p.reference_frame,
                    n_test_angles |-> n_test_angles(p.dtheta),
                    test_angles |-> test_angles(p.dtheta),
                    test_directions |-> test_directions(p.dtheta),
                    cell_fr_norm |-> [i \in 1..v.self.n |-> One] ]
         IN Built(v.self,
                  [a EXCEPT !.cell_fr_norm = BoundaryVectorCells_scan(a, p, env.walls)])

\* ObjectVectorCells.set_tuning_types: a random choice among the object types
\* present (choice), an integer for every cell, or a list of length n
set_tuning_types(tuning_types, k, env, choice) ==
    IF tuning_types.type = "random"
    THEN IF env.object_types = << >> THEN Raise("ValueError")
         ELSE Ok([i \in 1..k |-> choice])
    ELSE IF tuning_types.type = "int" THEN Ok([i \in 1..k |-> tuning_types.value[1]])
    ELSE IF Len(tuning_types.value) = k THEN Ok(tuning_types.value)
    ELSE Raise("AssertionError")

\* ObjectVectorCells.__init__
ObjectVectorCells__init__(p, env, choice) ==
    LET v == VectorCells__init__(p, env) IN
    IF v.raised # "none" THEN v
    ELSE LET t == set_tuning_types(p.object_tuning_type, v.self.n, env, choice) IN
         IF t.raised # "none" THEN Failed(t.raised)
         ELSE Built(v.self,
                    [ n |-> v.self.n,
                      tuning_distances |-> v.attrs.tuning_distances,
                      tuning_angles |-> v.attrs.tuning_angles,
                      sigma_distances |-> v.attrs.sigma_distances,
                      sigma_angles |-> v.attrs.sigma_angles,
                      reference_frame |-> p.reference_frame,
                      tuning_types |-> t.value,
                      wall_geometry |-> IF p.walls_occlude THEN "line_of_sight"
                                        ELSE "euclidean" ])

\* the fields HeadDirectionCells.__init__ leaves in 2D: n preferred angles
\* evenly spaced over the circle (degrees) and the angular tunings (1 radian, for
\* angular_spread_degrees = 180/pi); in 1D there are none
HeadDirectionCells_tunings(k, dim) ==
    IF dim = "1D" THEN [preferred_angles |-> << >>, angular_tunings |-> << >>]
    ELSE [ preferred_angles |-> [i \in 1..k |-> (360 * (i - 1)) \div k],
           angular_tunings |-> [i \in 1..k |-> 1] ]

\* HeadDirectionCells.__init__ in an Environment
HeadDirectionCells__init__in(p, env) ==
    LET self == HeadDirectionCells__init__(
                    [p EXCEPT !.dimensionality = env.dimensionality])
    IN Built(self, HeadDirectionCells_tunings(self.n, env.dimensionality))

\* VelocityCells.__init__: one_sigma_speed from the Agent as it is now, then the
\* constructor of the head direction cells
VelocityCells__init__(p, env, agent) ==
    LET hd == HeadDirectionCells__init__in(p, env) IN
    Built(hd.self,
          [ one_sigma_speed |-> agent.speed_mean + agent.speed_std,
            preferred_angles |-> hd.attrs.preferred_angles,
            angular_tunings |-> hd.attrs.angular_tunings ])

\* the constructor of each kind (choice: the draw of the random tuning type)
ConstructIn(p, env, choice) ==
    CASE p.kind = "PlaceCells" -> PlaceCells__init__in(p, env)
      [] p.kind = "GridCells" -> GridCells__init__(p, env)
      \* VectorCells.__init__ reads self.Agent, which only its subclasses set
      [] p.kind = "VectorCells" -> Failed("AttributeError")
      [] p.kind = "BoundaryVectorCells" -> BoundaryVectorCells__init__(p, env)
      [] p.kind = "ObjectVectorCells" -> ObjectVectorCells__init__(p, env, choice)
      [] p.kind = "HeadDirectionCells" -> HeadDirectionCells__init__in(p, env)

\* ------------------------------------------ get_state in its three modes
\* the keyword arguments of a call: pos (a batch of positions), head_direction
\* and vel, each << >> when it is not passed; evaluate_at is "agent", "all" or
\* "None"
NoKwargs == [pos |-> << >>, head_direction |-> << >>, vel |-> << >>]

\* the positions a position-tuned get_state works on, reshaped to a batch
Positions(evaluate_at, kwargs) ==
    CASE evaluate_at = "agent" -> <<Agent.pos>>
      [] evaluate_at = "all" -> flattened_discrete_coords
      [] OTHER -> kwargs.pos

\* a bearing that prefers the deprecated 'vel' to the 'head_direction' passed
head_bearing_vel_first(evaluate_at, kwargs) ==
    get_angle(IF evaluate_at = "agent" THEN Agent.head_direction
              ELSE IF kwargs.vel # << >> THEN kwargs.vel
              ELSE IF kwargs.head_direction # << >> THEN kwargs.head_direction
              ELSE <<1, 0>>)
\* the bearing the egocentric vector cells subtract: of the Agent's heading, of
\* the head_direction passed, of the vel passed, or of [1, 0]
head_bearing(evaluate_at, kwargs) ==
    get_angle(IF evaluate_at = "agent" THEN Agent.head_direction
              ELSE IF kwargs.head_direction # << >> THEN kwargs.head_direction
              ELSE IF kwargs.vel # << >> THEN kwargs.vel
              ELSE <<1, 0>>)

\* a result with its numpy shape
Evaluated(res, shape) ==
    [raised |-> res.raised, value |-> res.value,
     shape |-> IF res.raised = "none" THEN shape ELSE << >>]

\* PlaceCells.get_state for a batch: one row per cell, one column per position
PlaceCells_rates(batch) ==
    IF params.description \in {"one_hot", "top_hat"}
    THEN [i \in 1..n |-> [j \in DOMAIN batch |-> PlaceCells_get_state(batch[j]).value[i]]]
    ELSE [i \in 1..n |-> [j \in DOMAIN batch |->
            Rescaled(params,
                PlaceCells_firingrate(params.description,
                    Distance(params.place_cell_centres[i], batch[j]),
                    params.widths))]]

\* the head direction HeadDirectionCells.get_state uses
HeadDirectionCells_head_direction(evaluate_at, kwargs) ==
    IF evaluate_at = "agent" THEN Agent.head_direction
    ELSE IF kwargs.head_direction # << >> THEN kwargs.head_direction
    ELSE IF kwargs.vel # << >> THEN kwargs.vel
    ELSE IF params.dimensionality = "2D" THEN <<1, 0>> ELSE <<1>>

\* firingrate.reshape(-1) of a matrix with one column
Flat(m) == [i \in DOMAIN m |-> m[i][1]]

\* the warnings a get_state issues over the heading: 'vel' is deprecated (all
\* kinds), and no heading was passed so that [1, 0] is used (the egocentric
\* vector cells; the head direction cells print a message instead); the object
\* vector cells return before the heading is looked at when there is no object
warnings_warn(evaluate_at, kwargs) ==
    IF \/ params.kind \in {"BoundaryVectorCells", "ObjectVectorCells"}
          /\ attrs.reference_frame # "egocentric"
       \/ params.kind = "ObjectVectorCells" /\ Len(Environment.objects) = 0
       \/ params.kind \notin {"BoundaryVectorCells", "ObjectVectorCells",
                              "HeadDirectionCells", "VelocityCells"}
       \/ evaluate_at = "agent" \/ kwargs.head_direction # << >>
    THEN {}
    ELSE IF kwargs.vel # << >> THEN {"deprecated"}
    ELSE IF params.kind \in {"BoundaryVectorCells", "ObjectVectorCells"}
    THEN {"default"}
    ELSE {}

\* HeadDirectionCells.get_state for a head direction: the step function of its
\* sign in 1D (Hz), the von Mises of its angle about each preferred angle in 2D
\* (units of 1/One)
HeadDirectionCells_state(a, p, head_direction) ==
    IF p.dimensionality = "1D" THEN HeadDirectionCells_get_state(head_direction)
    ELSE Ok([i \in 1..p.n |->
            Rescaled(p, von_mises(get_angle(head_direction),
                                  a.preferred_angles[i], a.angular_tunings[i]))])

\* a speed taken from the 'vel' passed when one is passed
VelocityCells_velocity_of_call(evaluate_at, kwargs) ==
    IF evaluate_at # "agent" /\ kwargs.vel # << >> THEN kwargs.vel
    ELSE Agent.velocity
\* the velocity whose norm scales the rates: self.Agent.velocity
VelocityCells_velocity(evaluate_at, kwargs) == Agent.velocity

\* np.linalg.norm(velocity) / one_sigma_speed, in units of 1/One
speed_scale(velocity, one_sigma) == (Norm(velocity) * One) \div one_sigma

\* VelocityCells.get_state: the rates of the head direction cells times the
\* speed scale, in units of 1/One
VelocityCells_state(a, p, head_direction, velocity) ==
    LET HDC_firingrates == HeadDirectionCells_state(a, p, head_direction).value
        scale == speed_scale(velocity, a.one_sigma_speed)
    IN Ok([i \in DOMAIN HDC_firingrates |->
            IF p.dimensionality = "1D" THEN HDC_firingrates[i] * scale
            ELSE Mul(HDC_firingrates[i], scale)])

\* --------------------------------------------------------------- grid cells
\* origin = gridscales * phase_offsets / (2 pi), phase offsets in degrees
GridCells_origin(a, i) ==
    [k \in 1..2 |-> (a.gridscales[i] * a.phase_offsets[i][k]) \div 360]
\* utils.get_vectors_between(origin, pos), one entry
get_vectors_between(origin, pos) == [k \in 1..2 |-> origin[k] - pos[k]]
\* twice (vecs * w_k).sum(axis=-1) for k = 1, 2, 3, with w1 = [1, 0] rotated by
\* the orientation, w2 and w3 at 60 and 120 degrees from w1; for a vector along
\* w1 (cos 60 = 1/2, cos 120 = -1/2), as the vectors between points of the line
\* y = 1 are when the orientation is 0
GridCells_w_dot(vec, orientation, k) ==
    LET w1 == rotate(<<1, 0>>, orientation)
        along == vec[1] * w1[1] + vec[2] * w1[2]
    IN CASE k = 1 -> 2 * along [] k = 2 -> along [] k = 3 -> -along
\* phi_k = (2 pi / gridscale) * (vecs * w_k).sum(axis=-1), in degrees
GridCells_phi(a, i, pos, k) ==
    (180 * GridCells_w_dot(get_vectors_between(GridCells_origin(a, i), pos),
                           a.orientations[i], k)) \div a.gridscales[i]
\* the sum of the three cosines at a position, for cell i
GridCells_cosines(a, i, pos) ==
    Cos(GridCells_phi(a, i, pos, 1)) + Cos(GridCells_phi(a, i, pos, 2))
        + Cos(GridCells_phi(a, i, pos, 3))
\* the rate before the rescale, in units of 1/One: a third of the sum of the
\* cosines clipped at 0, or (2/3) (sum / 3 + 1/2)
GridCells_firingrate(description, cosines) ==
    IF description = "three_rectified_cosines"
    THEN Max0((One * cosines) \div 3)
    ELSE (One * (2 * cosines + 3)) \div 9
\* GridCells.get_state for a batch: one row per cell, one column per position;
\* with another description no branch assigns firingrate
GridCells_rates(a, p, batch) ==
    IF p.description \notin {"three_rectified_cosines", "three_shifted_cosines"}
    THEN Raise("UnboundLocalError")
    ELSE Ok([i \in 1..Len(a.gridscales) |-> [j \in 1..Len(batch) |->
            Rescaled(p, GridCells_firingrate(p.description,
                                             GridCells_cosines(a, i, batch[j])))]])

\* get_state(evaluate_at, **kwargs) of each kind, with the shape of the array
\* it returns
get_state_at(evaluate_at, kwargs) ==
    LET batch == Positions(evaluate_at, kwargs)
        hb == head_bearing(evaluate_at, kwargs)
    IN IF /\ params.kind \in {"PlaceCells", "GridCells", "BoundaryVectorCells",
                              "ObjectVectorCells"}
          /\ evaluate_at = "None" /\ kwargs.pos = << >>
       THEN Evaluated(Raise("KeyError"), << >>)
       ELSE
       CASE params.kind = "PlaceCells" ->
              Evaluated(Ok(PlaceCells_rates(batch)), <<n, Len(batch)>>)
         [] params.kind = "GridCells" ->
              Evaluated(GridCells_rates(attrs, params, batch), <<n, Len(batch)>>)
         [] params.kind = "BoundaryVectorCells" ->
              Evaluated(Ok(BoundaryVectorCells_rates(attrs, params,
                              Environment.walls, batch, hb)),
                        <<attrs.n, Len(batch)>>)
         [] params.kind = "ObjectVectorCells" ->
              Evaluated(Ok(ObjectVectorCells_rates(attrs, params, Environment,
                              batch, hb)),
                        <<attrs.n, Len(batch)>>)
         [] params.kind = "HeadDirectionCells" ->
              LET res == HeadDirectionCells_state(attrs, params,
                            HeadDirectionCells_head_direction(evaluate_at, kwargs))
              IN Evaluated(res, <<Len(res.value)>>)
         [] params.kind = "VelocityCells" ->
              LET res == VelocityCells_state(attrs, params,
                            HeadDirectionCells_head_direction(evaluate_at, kwargs),
                            VelocityCells_velocity(evaluate_at, kwargs))
              IN Evaluated(res, <<Len(res.value)>>)
         [] params.kind = "SpeedCell" ->
              IF evaluate_at = "agent" THEN Evaluated(SpeedCell_get_state, <<1>>)
              ELSE IF kwargs.vel = << >> THEN Evaluated(Raise("KeyError"), << >>)
              ELSE Evaluated(Ok(Rescale(<<Norm(kwargs.vel) \div one_sigma_speed>>)),
                             <<1>>)
         [] OTHER -> Evaluated(Neurons_get_state, << >>)

\* self.get_state() as update() calls it (no keyword arguments)
get_state ==
    CASE params.kind = "PlaceCells" /\ params.description \in {"one_hot", "top_hat"} ->
            PlaceCells_get_state(Agent.pos)
      [] \/ params.kind = "PlaceCells" /\ params.description \notin {"one_hot", "top_hat"}
         \/ params.kind \in {"BoundaryVectorCells", "ObjectVectorCells"} ->
            Ok(Flat(get_state_at("agent", NoKwargs).value))
      [] params.kind = "GridCells" ->
            LET res == get_state_at("agent", NoKwargs)
            IN IF res.raised = "none" THEN Ok(Flat(res.value)) ELSE Raise(res.raised)
      [] params.kind = "HeadDirectionCells" ->
            HeadDirectionCells_state(attrs, params, Agent.head_direction)
      [] params.kind = "VelocityCells" ->
            VelocityCells_state(attrs, params, Agent.head_direction, Agent.velocity)
      [] params.kind = "SpeedCell" -> SpeedCell_get_state
      [] OTHER -> Neurons_get_state


\* ------------------------------------------------------ noise and spikes
\* np.random.normal(size=x.shape), in units that keep the noise an integer: the
\* same sample for every cell, or samples alternating in sign
Normals(k) ==
    {[i \in 1..k |-> c] : c \in {-1, 0, 1}}
    \cup {[i \in 1..k |-> IF i % 2 = 1 THEN 1 ELSE -1]}
\* np.random.uniform(0, 1, size=(n,)), as numerators over UDen: the same sample
\* for every cell
Uniforms(k) == {[i \in 1..k |-> c] : c \in 0..(UDen - 1)}

\* utils.ornstein_uhlenbeck(dt, x, drift=0, noise_scale, coherence_time): the
\* decay towards zero at rate dt/coherence_time plus the random term, one entry
\* per entry of x
ornstein_uhlenbeck(x, noise_scale, xi) ==
    [i \in DOMAIN x |-> (0 - (x[i] * CoherenceInv) \div DtInv) + noise_scale * xi[i]]

\* a comparison that also fires on equality
Spike_or_equal(u, rate) == ~IsNaN(rate) /\ u * DtInv <= rate * UDen

\* uniform sample < dt * rate, for one cell
Spike(u, rate) == Less(u * DtInv, Times(rate, UDen))

\* the comparison in save_to_history, broadcast over both operands
cell_spikes(u, fr) ==
    [i \in 1..BroadcastLen(Len(u), Len(fr)) |-> Spike(At(u, i), At(fr, i))]

\* a save that forgets the spikes
save_to_history_without_spikes(h, t, fr, u) ==
    [h EXCEPT !.t = Append(h.t, t), !.firingrate = Append(h.firingrate, fr)]

\* a save whose stored rates all are the one rate vector the population holds
save_to_history_shared_rate(h, t, fr, u) ==
    [ t |-> Append(h.t, t),
      firingrate |-> Append([k \in DOMAIN h.firingrate |-> fr], fr),
      spikes |-> Append(h.spikes, cell_spikes(u, fr)) ]

\* Neurons.save_to_history: appends one entry to each of the three lists
save_to_history(h, t, fr, u) ==
    [ t |-> Append(h.t, t),
      firingrate |-> Append(h.firingrate, fr),
      spikes |-> Append(h.spikes, cell_spikes(u, fr)) ]

\* a reset that leaves the spikes
reset_history_keeps_spikes(h) == [h EXCEPT !.t = << >>, !.firingrate = << >>]

\* Neurons.reset_history: every key of the history gets an empty list
reset_history(h) == [key \in DOMAIN h |-> << >>]

\* an update that saves whatever save_history says
saves_history_always == TRUE

\* the test "self.save_history is True" in update()
saves_history == params.save_history

\* ---------------------------------------------------------------- actions
\* Neurons.update(): noise, then the rate (zeros when Agent.pos[0] is NaN, else
\* get_state), then rate + noise, then the history
Update ==
    /\ completed < MaxHist
    /\ \E xi \in Normals(Len(noise)), u \in Uniforms(n) :
        LET dnoise == ornstein_uhlenbeck(noise, params.noise_std, xi)
            noise1 == VecAdd(noise, dnoise)
            called == ~IsNaN(Agent.pos[1])
            res == IF called THEN get_state ELSE Ok(Zeros(n))
            fr1 == res.value
            fr2 == VecAdd(fr1, noise1)
            call == [op |-> "update", raised |-> "none",
                     get_state_called |-> called, state |-> res.value]
        IN
        /\ noise' = noise1
        /\ IF res.raised # "none"
           THEN \* get_state raised: nothing after line 162 runs
                /\ ret' = [call EXCEPT !.raised = res.raised]
                /\ UNCHANGED <<firingrate, history, completed>>
           ELSE IF BroadcastLen(Len(fr1), Len(noise1)) = 0
           THEN \* line 164 raised after line 163 stored the reshaped rate
                /\ firingrate' = fr1
                /\ ret' = [call EXCEPT !.raised = "ValueError"]
                /\ UNCHANGED <<history, completed>>
           ELSE IF saves_history /\ BroadcastLen(n, Len(fr2)) = 0
           THEN \* the comparison in save_to_history raised before any append
                /\ firingrate' = fr2
                /\ ret' = [call EXCEPT !.raised = "ValueError"]
                /\ UNCHANGED <<history, completed>>
           ELSE /\ firingrate' = fr2
                /\ history' = IF saves_history
                              THEN save_to_history(history, Agent.t, fr2, u)
                              ELSE history
                /\ ret' = call
                /\ completed' = completed + 1
    /\ UNCHANGED <<params, n, Agent, discarded, Environment, attrs>>

\* Neurons.reset_history()
ResetHistory ==
    /\ history' = reset_history(history)
    /\ ret' = [NoCall EXCEPT !.op = "reset_history"]
    /\ completed' = 0
    /\ discarded' = (history.t # << >>)
    /\ UNCHANGED <<params, n, firingrate, noise, Agent, Environment, attrs>>

\* Agent.update(): a new position and velocity, one step of time, one history entry
AgentUpdate ==
    /\ Agent.t < MaxT
    /\ \E m \in AgentMoves(params.dimensionality) :
        Agent' = [ Agent EXCEPT
                     !.pos = m[1], !.velocity = m[2],
                     !.head_direction = Heading(m[2], Agent.head_direction),
                     !.t = Agent.t + 1,
                     !.history_vel = <<m[2]>> ]
    /\ ret' = [NoCall EXCEPT !.op = "Agent.update"]
    /\ UNCHANGED <<params, n, firingrate, noise, history, completed, discarded,
                   Environment, attrs>>

Next == Update \/ ResetHistory \/ AgentUpdate

Spec == Init /\ [][Next]_vars
SpecPlaceCells == InitPlaceCells /\ [][Next]_vars


\* --------------------------------------------- populations in the corridor
\* the output of a cell arrangement for k cells: distances 1, 2, 1, ... and
\* angles 0, 270, 180, ... degrees
Arrangement(k) ==
    [ tuning_distances |-> [i \in 1..k |-> ((i - 1) % 2) + 1],
      tuning_angles |-> [i \in 1..k |-> (270 * (i - 1)) % 360],
      sigma_distances |-> [i \in 1..k |-> 1],
      sigma_angles |-> [i \in 1..k |-> 1] ]
\* a parameter that is sampled from its distribution, and one given as a list
Sampled == [type |-> "sampled", value |-> << >>]
List(v) == [type |-> "list", value |-> v]
\* centres on the line y = 1
FieldCentres == [i \in 1..MaxN |-> <<2 * i - 1, 1>>]

\* a parameter dictionary with the defaults of every kind merged in
FieldParams(kind, frs) ==
    { [ kind |-> kind, dimensionality |-> "2D", n |-> MaxN,
        save_history |-> FALSE, noise_std |-> 0,
        min_fr |-> fr[1], max_fr |-> fr[2],
        description |-> "gaussian", place_cell_centres |-> FieldCentres,
        widths |-> 1, wall_geometry |-> "geodesic",
        gridscale |-> Sampled, phase_offset |-> Sampled, orientation |-> Sampled,
        reference_frame |-> "allocentric", cell_arrangement |-> Arrangement(MaxN),
        dtheta |-> 90, object_tuning_type |-> [type |-> "int", value |-> <<0>>],
        walls_occlude |-> TRUE ] : fr \in frs }

PlaceFieldsParamSets ==
    { [p EXCEPT !.description = d] :
        p \in FieldParams("PlaceCells", FrPairs),
        d \in {"gaussian", "gaussian_threshold", "diff_of_gaussians"} }

BoundaryVectorCellsParamSets ==
    { [p EXCEPT !.reference_frame = rf, !.dtheta = dt] :
        p \in FieldParams("BoundaryVectorCells", {<<0, 1>>, <<0, 2>>}),
        rf \in {"allocentric", "egocentric"}, dt \in {90, 180} }

ObjectVectorCellsParamSets ==
    { [p EXCEPT !.reference_frame = rf, !.object_tuning_type = t] :
        p \in FieldParams("ObjectVectorCells", {<<0, 2>>, <<1, 1>>}),
        rf \in {"allocentric", "egocentric"},
        t \in {[type |-> "int", value |-> <<0>>], List([i \in 1..MaxN |-> (i - 1) % 2])} }

\* the cell arrangement with one of its four arrays a cell short
ShortArrangements ==
    LET c == Arrangement(MaxN) IN
    { [c EXCEPT !.tuning_distances = SubSeq(@, 1, MaxN - 1)],
      [c EXCEPT !.tuning_angles = SubSeq(@, 1, MaxN - 1)],
      [c EXCEPT !.sigma_distances = SubSeq(@, 1, MaxN - 1)],
      [c EXCEPT !.sigma_angles = SubSeq(@, 1, MaxN - 1)] }
\* lists of n - 1, n and n + 1 entries
Lists == {List(Zeros(k)) : k \in (MaxN - 1)..(MaxN + 1)}

\* the parameter dictionaries the constructors are called with
ConstructParamSets ==
    { [p EXCEPT !.wall_geometry = g] :
        p \in FieldParams("PlaceCells", {<<0, 1>>}),
        g \in {"euclidean", "line_of_sight", "geodesic"} }
    \cup { [p EXCEPT !.gridscale = g, !.phase_offset = ph, !.orientation = o] :
        p \in FieldParams("GridCells", {<<0, 1>>}),
        g \in {Sampled, List(Zeros(MaxN + 1))},
        ph \in {Sampled} \cup Lists, o \in {Sampled} \cup Lists }
    \cup { [p EXCEPT !.cell_arrangement = c] :
        p \in FieldParams("VectorCells", {<<0, 1>>})
              \cup FieldParams("BoundaryVectorCells", {<<0, 1>>}),
        c \in {Arrangement(MaxN)} \cup ShortArrangements }
    \cup { [p EXCEPT !.cell_arrangement = c, !.object_tuning_type = t] :
        p \in FieldParams("ObjectVectorCells", {<<0, 1>>}),
        c \in {Arrangement(MaxN)} \cup ShortArrangements,
        t \in {[type |-> "random", value |-> << >>], [type |-> "int", value |-> <<1>>]}
              \cup Lists }

\* a population constructed in an Environment with the Agent at (1, 1)
InitIn(ps, envs) ==
    \E p \in ps : \E env \in envs :
        LET c == ConstructIn(p, env, 0) IN
        /\ c.raised = "none"
        /\ params = c.self.params
        /\ n = c.self.n
        /\ firingrate = c.self.firingrate
        /\ noise = c.self.noise
        /\ history = c.self.history
        /\ Agent = AgentInit("2D", <<1, 1>>)
        /\ ret = NoCall
        /\ completed = 0
        /\ discarded = FALSE
        /\ Environment = env
        /\ attrs = c.attrs

Corridor == Environment__init__("2D", "solid")
\* the corridor with the lower half of the partition already in place
CorridorWithWall ==
    [Corridor EXCEPT !.walls = Append(@, << <<2, 0>>, <<2, 1>> >>)]

InitPlaceFields == InitIn(PlaceFieldsParamSets, {Corridor})
InitBoundaryVectorCells ==
    InitIn(BoundaryVectorCellsParamSets, {Corridor, CorridorWithWall})
\* the populations update() is run on, constructed before any wall is added
InitCellFrNorm ==
    InitIn({p \in BoundaryVectorCellsParamSets : p.dtheta = 90}, {Corridor})
InitObjectVectorCells == InitIn(ObjectVectorCellsParamSets, {Corridor})

\* Agent.Neurons holds the populations of the Agent in the order of their
\* registration; a population refers to another by its index there. The
\* population the variables params, n, firingrate, noise and history describe
\* is entered by its kind and name; a FeedForwardLayer carries its fields.
Population(kind, name) ==
    [ kind |-> kind, name |-> name, n |-> 0, firingrate |-> << >>,
      noise |-> << >>, history |-> EmptyHistory, inputs |-> << >>,
      biases |-> << >>, firingrate_prime |-> << >>, activation |-> "none" ]
\* an Agent record with the list Agent.Neurons
WithNeurons(agent, populations) ==
    [ pos |-> agent.pos, velocity |-> agent.velocity,
      head_direction |-> agent.head_direction, t |-> agent.t,
      history_vel |-> agent.history_vel, Neurons |-> populations ]
\* the object types of the Environments the constructors are called in
ObjectTypeLists == {<< >>, <<0>>, <<0, 1>>}
\* an Environment with its objects, an Agent, and no population yet
InitConstruct ==
    \E dim \in {"1D", "2D"}, bc \in {"solid", "periodic"}, types \in ObjectTypeLists :
        /\ dim = "1D" => types = << >>
        /\ params = [kind |-> "none", dimensionality |-> dim]
        /\ n = 0
        /\ firingrate = << >>
        /\ noise = << >>
        /\ history = EmptyHistory
        /\ Agent = WithNeurons(AgentInit(dim, Origin(dim)), << >>)
        /\ ret = NoCall
        /\ completed = 0
        /\ discarded = FALSE
        /\ Environment =
             [Environment__init__(dim, bc) EXCEPT
                !.objects = [k \in DOMAIN types |-> <<k + 1, 1>>],
                !.object_types = types]
        /\ attrs = << >>

\* ------------------------------------------------------- further actions
\* the batches of positions passed as pos: the scanned grid, a point between
\* its points, and a point on the boundary with a point outside
Batches == {discretise_environment, << <<2, 1>> >>, << <<0, 1>>, <<-1, 1>> >>}
HeadDirections == {<< >>, <<0, 1>>}
\* the calls of get_state: <<evaluate_at, kwargs>>
Calls ==
    {<<"agent", NoKwargs>>}
    \cup {<<"all", [NoKwargs EXCEPT !.head_direction = h]>> : h \in HeadDirections}
    \cup {<<"None", [NoKwargs EXCEPT !.pos = b, !.head_direction = h]>> :
            b \in Batches, h \in HeadDirections}
    \cup {<<"None", [NoKwargs EXCEPT !.vel = <<0, 2 * one_sigma_speed>>]>>}

\* get_state(evaluate_at, **kwargs), called from outside update() with one of
\* the calls given
GetStateFrom(calls) ==
    /\ \E call \in calls : \E res \in {get_state_at(call[1], call[2])} :
        ret' = [ op |-> "get_state", raised |-> res.raised,
                 get_state_called |-> TRUE, state |-> res.value,
                 shape |-> res.shape, evaluate_at |-> call[1],
                 kwargs |-> call[2],
                 warned |-> warnings_warn(call[1], call[2]),
                 pos |-> IF params.kind = "PlaceCells"
                            \/ params.kind = "BoundaryVectorCells"
                            \/ params.kind = "ObjectVectorCells"
                            \/ params.kind = "GridCells"
                         THEN Positions(call[1], call[2]) ELSE << >> ]
    /\ UNCHANGED <<params, n, firingrate, noise, history, Agent, completed,
                   discarded, Environment, attrs>>

GetState == GetStateFrom(Calls)

\* Environment.add_wall
AddWall ==
    /\ Environment.dimensionality = "2D"
    /\ \E w \in ExtraWalls :
        /\ \A k \in DOMAIN Environment.walls : Environment.walls[k] # w
        /\ Environment' = [Environment EXCEPT !.walls = Append(@, w)]
    /\ ret' = [NoCall EXCEPT !.op = "add_wall"]
    /\ UNCHANGED <<params, n, firingrate, noise, history, Agent, completed,
                   discarded, attrs>>

\* the objects added: <<position, type>>
ObjectPlacements == {<< <<2, 1>>, 0 >>, << <<3, 1>>, 0 >>, << <<3, 1>>, 1 >>}
\* Environment.add_object
AddObject ==
    /\ Environment.dimensionality = "2D"
    /\ Len(Environment.objects) < MaxN
    /\ \E o \in ObjectPlacements :
        Environment' = [Environment EXCEPT !.objects = Append(@, o[1]),
                                           !.object_types = Append(@, o[2])]
    /\ ret' = [NoCall EXCEPT !.op = "add_object"]
    /\ UNCHANGED <<params, n, firingrate, noise, history, Agent, completed,
                   discarded, attrs>>

\* the steps of an Agent in the corridor: positions on the line y = 1 (one of
\* them on the boundary) heading along x, and two other headings at (1, 1)
WalkMoves ==
    {<<pos, <<1, 0>>>> : pos \in {<<0, 1>>, <<2, 1>>, <<3, 1>>}}
    \cup {<<<<1, 1>>, h>> : h \in {<<0, 1>>, <<-1, 0>>}}
\* Agent.update() in the corridor
AgentWalk ==
    /\ Agent.t < MaxT
    /\ \E m \in WalkMoves :
        LET vel == <<one_sigma_speed * m[2][1], one_sigma_speed * m[2][2]>> IN
        Agent' = [ Agent EXCEPT
                     !.pos = m[1], !.velocity = vel, !.head_direction = m[2],
                     !.t = Agent.t + 1, !.history_vel = <<vel>> ]
    /\ ret' = [NoCall EXCEPT !.op = "Agent.update"]
    /\ UNCHANGED <<params, n, firingrate, noise, history, completed, discarded,
                   Environment, attrs>>

\* np.unique(object_types): the types a random tuning type is drawn from
Present(env) ==
    IF env.object_types = << >> THEN {0}
    ELSE {env.object_types[k] : k \in DOMAIN env.object_types}
\* whether the constructor of a kind gets to Neurons.__init__, whose first
\* statements are self.Agent = Agent; self.Agent.Neurons.append(self):
\* VectorCells itself fails before (it reads self.Agent), its subclasses
\* assert a 2D Environment before (ObjectVectorCells.__init__ and
\* VectorCells.__init__), and every other check of a constructor comes after
\* its super().__init__
Neurons__init__reached(p, env) ==
    CASE p.kind = "VectorCells" -> FALSE
      [] p.kind \in {"BoundaryVectorCells", "ObjectVectorCells"} ->
            env.dimensionality = "2D"
      [] OTHER -> TRUE
\* Agent.Neurons after a constructor call: the object is appended when
\* Neurons.__init__ is reached, whatever the constructor does afterwards (its
\* name is the default one, the name of its class)
Neurons_registered(registry, p, env) ==
    IF Neurons__init__reached(p, env)
    THEN Append(registry, Population(p.kind, p.kind))
    ELSE registry
\* a constructor call while no population is held and none is registered: the
\* population it returns is held from then on; when it raises, nothing is
\* returned
ConstructPopulation ==
    /\ params.kind = "none" /\ Agent.Neurons = << >>
    /\ \E p \in ConstructParamSets : \E choice \in Present(Environment) :
        LET c == ConstructIn(p, Environment, choice) IN
        /\ ret' = [ op |-> "__init__", raised |-> c.raised,
                    get_state_called |-> FALSE, state |-> << >>, requested |-> p ]
        /\ IF c.raised = "none"
           THEN /\ params' = c.self.params
                /\ n' = c.self.n
                /\ firingrate' = c.self.firingrate
                /\ noise' = c.self.noise
                /\ history' = c.self.history
                /\ attrs' = c.attrs
           ELSE UNCHANGED <<params, n, firingrate, noise, history, attrs>>
        /\ Agent' = [Agent EXCEPT
                        !.Neurons = Neurons_registered(@, p, Environment)]
    /\ UNCHANGED <<completed, discarded, Environment>>

NextGetState == GetState \/ AgentUpdate
NextPlaceFields == GetState \/ AgentWalk
NextBoundaryVectorCells == GetState \/ AddWall \/ AgentWalk
NextCellFrNorm == GetState \/ AddWall \/ Update
NextObjectVectorCells == GetState \/ AddObject \/ AgentWalk

SpecGetState == Init /\ [][NextGetState]_vars
SpecPlaceFields == InitPlaceFields /\ [][NextPlaceFields]_vars
SpecBoundaryVectorCells ==
    InitBoundaryVectorCells /\ [][NextBoundaryVectorCells]_vars
SpecCellFrNorm == InitCellFrNorm /\ [][NextCellFrNorm]_vars
SpecObjectVectorCells == InitObjectVectorCells /\ [][NextObjectVectorCells]_vars

\* -------------------------------------------- head direction and velocity cells
\* the values the Agent's speed_mean is given
SpeedMeans == {speed_mean, 3 * speed_mean}
\* the velocity cells of a 1D and of a 2D Environment, the Agent at rest in
\* neither
VelocityCellsParamSets ==
    UNION { {p \in BaseParams("VelocityCells", dim, {2}, {<<0, 1>>, <<1, 2>>}) :
                p.noise_std = 0 /\ ~p.save_history} : dim \in {"1D", "2D"} }
InitVelocityCells ==
    \E p \in VelocityCellsParamSets : \E mean \in SpeedMeans :
        LET env == Environment__init__(p.dimensionality, "solid")
            agent == [ pos |-> Origin(p.dimensionality),
                       velocity |-> AgentInit(p.dimensionality,
                                              Origin(p.dimensionality)).velocity,
                       head_direction |-> AgentInit(p.dimensionality,
                                              Origin(p.dimensionality)).head_direction,
                       t |-> 0, history_vel |-> << >>,
                       speed_mean |-> mean, speed_std |-> speed_std ]
            c == VelocityCells__init__(p, env, agent)
        IN
        /\ params = c.self.params
        /\ n = c.self.n
        /\ firingrate = c.self.firingrate
        /\ noise = c.self.noise
        /\ history = c.self.history
        /\ Agent = agent
        /\ ret = NoCall
        /\ completed = 0
        /\ discarded = FALSE
        /\ Environment = env
        /\ attrs = c.attrs

\* the calls of get_state with and without a heading and a velocity passed
HeadingCalls(dim) ==
    LET hd == IF dim = "1D" THEN <<-1>> ELSE <<0, 1>>
        vel == IF dim = "1D" THEN <<-one_sigma_speed>> ELSE <<-2 * one_sigma_speed, 0>>
        pos == IF dim = "1D" THEN << <<2>> >> ELSE << <<2, 1>> >>
    IN {<<e, [ pos |-> IF e = "None" THEN pos ELSE << >>,
               head_direction |-> h, vel |-> v ]>> :
            e \in {"agent", "all", "None"}, h \in {<< >>, hd}, v \in {<< >>, vel}}

GetStateHeading == GetStateFrom(HeadingCalls(params.dimensionality))

\* the user gives the Agent another mean speed
SetSpeedMean ==
    /\ \E mean \in SpeedMeans :
        /\ mean # Agent.speed_mean
        /\ Agent' = [Agent EXCEPT !.speed_mean = mean]
    /\ ret' = [NoCall EXCEPT !.op = "speed_mean"]
    /\ UNCHANGED <<params, n, firingrate, noise, history, completed, discarded,
                   Environment, attrs>>

\* the corridor with two objects of one type
CorridorWithObjects ==
    [Corridor EXCEPT !.objects = << <<2, 1>>, <<3, 1>> >>, !.object_types = <<0, 0>>]
\* egocentric and allocentric vector cells and head direction cells (four of
\* them in 2D)
HeadingParamSets ==
    { [p EXCEPT !.reference_frame = rf] :
        p \in FieldParams("BoundaryVectorCells", {<<0, 1>>})
              \cup FieldParams("ObjectVectorCells", {<<0, 1>>}),
        rf \in {"allocentric", "egocentric"} }
    \cup { [p EXCEPT !.n = 4] : p \in FieldParams("HeadDirectionCells", {<<0, 1>>}) }
InitHeading ==
    \/ InitIn(HeadingParamSets, {Corridor, CorridorWithObjects})
    \/ InitWith({p \in ParamSets : p.kind = "HeadDirectionCells"})

\* grid cells of gridscale 2 and orientation 0 whose origins lie on the line
\* y = 1, one unit apart (phase offsets in degrees)
GridCellsParamSets ==
    { [p EXCEPT !.description = d, !.gridscale = List([i \in 1..MaxN |-> 2]),
                !.phase_offset = List([i \in 1..MaxN |-> <<180 * (i - 1), 180>>]),
                !.orientation = List(Zeros(MaxN))] :
        p \in FieldParams("GridCells", {<<0, 1>>, <<1, 3>>}),
        d \in {"three_rectified_cosines", "three_shifted_cosines"} }
InitGridCells == InitIn(GridCellsParamSets, {Corridor})
\* the calls of get_state on the grid cells: at the Agent, over the
\* Environment, and at batches of a position and its translates by multiples
\* of the gridscale along w1
GridCellsCalls ==
    {<<"agent", NoKwargs>>, <<"all", NoKwargs>>}
    \cup {<<"None", [NoKwargs EXCEPT !.pos = b]>> :
            b \in {<< <<x, 1>>, <<x + 2, 1>>, <<x + 4, 1>> >> : x \in 0..MaxCoord}}
GetStateGridCells == GetStateFrom(GridCellsCalls)
NextGridCells == GetStateGridCells \/ AgentWalk
SpecGridCells == InitGridCells /\ [][NextGridCells]_vars

NextHeading ==
    \/ GetStateHeading
    \/ Environment.dimensionality = "2D" /\ AgentWalk
    \/ Environment.dimensionality = "1D" /\ AgentUpdate
SpecHeading == InitHeading /\ [][NextHeading]_vars

NextVelocityCells == GetStateHeading \/ AgentUpdate \/ SetSpeedMean
SpecVelocityCells == InitVelocityCells /\ [][NextVelocityCells]_vars

\* ------------------------------------------------------ feed-forward layers
\* layer.n and layer.firingrate of the population at index k
layer_n(h, k) == IF h[k].kind = "FeedForwardLayer" THEN h[k].n ELSE n
layer_firingrate(h, k) ==
    IF h[k].kind = "FeedForwardLayer" THEN h[k].firingrate ELSE firingrate

\* utils.activate(V, other_args): 'linear', and 'relu' with gain 1 and
\* threshold 0
activate(x, activation) == IF activation = "relu" THEN Max0(x) ELSE x
\* utils.activate(V, other_args, deriv=True)
activate_deriv(x, activation) ==
    IF activation = "relu" THEN (IF x > 0 THEN 1 ELSE 0) ELSE 1

\* np.eye(k), np.ones((rows, cols)), and np.zeros of a shape (a vector when
\* cols = 0)
Eye(k) == [r \in 1..k |-> [c \in 1..k |-> IF r = c THEN 1 ELSE 0]]
Ones(rows, cols) == [r \in 1..rows |-> [c \in 1..cols |-> 1]]
ZerosOfShape(rows, cols) ==
    IF cols = 0 THEN Zeros(rows) ELSE [r \in 1..rows |-> Zeros(cols)]
\* np.random.normal(size=(rows, cols)): every weight -1, or signs alternating
\* along the rows
RandomWeights(rows, cols) ==
    { [r \in 1..rows |-> [c \in 1..cols |-> -1]],
      [r \in 1..rows |-> [c \in 1..cols |-> IF (r + c) % 2 = 0 THEN 1 ELSE -1]] }

\* a product that sums the entries of I whatever the weights
matmul_unweighted(w, I, cols) ==
    IF cols = 0 THEN Ok([r \in DOMAIN w |-> SumSeq(I)])
    ELSE Ok([r \in DOMAIN w |-> [j \in 1..cols |->
                SumSeq([c \in DOMAIN I |-> I[c][j]])]])
\* np.matmul(w, I) for a vector I (cols = 0) or a matrix I of cols columns; the
\* columns of w must be as many as the entries (rows) of I
matmul(w, I, cols) ==
    IF \E r \in DOMAIN w : Len(w[r]) # Len(I) THEN Raise("ValueError")
    ELSE IF cols = 0
    THEN Ok([r \in DOMAIN w |-> SumSeq([c \in DOMAIN I |-> Times(w[r][c], I[c])])])
    ELSE Ok([r \in DOMAIN w |-> [j \in 1..cols |->
                SumSeq([c \in DOMAIN I |-> Times(w[r][c], I[c][j])])]])
\* V += M for arrays of one number of columns: M must have the rows of V, or one
PlusEq(V, M, cols) ==
    IF Len(M) # Len(V) /\ Len(M) # 1 THEN Raise("ValueError")
    ELSE IF cols = 0 THEN Ok([r \in DOMAIN V |-> Plus(V[r], At(M, r))])
    ELSE Ok([r \in DOMAIN V |-> [j \in 1..cols |-> Plus(V[r][j], At(M, r)[j])]])
\* utils.activate on an array: every entry activated
activate_array(V, cols, activation) ==
    IF cols = 0 THEN [r \in DOMAIN V |-> activate(V[r], activation)]
    ELSE [r \in DOMAIN V |-> [j \in 1..cols |-> activate(V[r][j], activation)]]

\* an add_input that keeps the keys the entry of that name already had
add_input_merging(self, name, k, n_up, w, kwargs) ==
    LET entry == [ name |-> name, layer |-> k, w |-> w, w_init |-> w,
                   I |-> Zeros(n_up), n |-> n_up, kwargs |-> kwargs,
                   I_temp |-> << >> ]
    IN IF \E i \in DOMAIN self.inputs : self.inputs[i].name = name
       THEN [self EXCEPT !.inputs =
               [i \in DOMAIN self.inputs |->
                   IF self.inputs[i].name = name
                   THEN [entry EXCEPT !.kwargs = self.inputs[i].kwargs \cup kwargs,
                                      !.I_temp = self.inputs[i].I_temp]
                   ELSE self.inputs[i]]]
       ELSE [self EXCEPT !.inputs = Append(self.inputs, entry)]
\* FeedForwardLayer.add_input(input_layer, w, **kwargs) once w is drawn: the
\* entry self.inputs[name] is a new dictionary with the keys layer, w, w_init,
\* I, n and those of kwargs (I_temp is << >> until get_state sets it); the
\* layer is the population at index k, of name 'name' and n_up cells
add_input(self, name, k, n_up, w, kwargs) ==
    LET entry == [ name |-> name, layer |-> k, w |-> w, w_init |-> w,
                   I |-> Zeros(n_up), n |-> n_up, kwargs |-> kwargs,
                   I_temp |-> << >> ]
    IN IF \E i \in DOMAIN self.inputs : self.inputs[i].name = name
       THEN [self EXCEPT !.inputs =
               [i \in DOMAIN self.inputs |->
                   IF self.inputs[i].name = name THEN entry ELSE self.inputs[i]]]
       ELSE [self EXCEPT !.inputs = Append(self.inputs, entry)]

RECURSIVE add_inputs(_, _, _, _)
\* the loop of __init__ over input_layers, from its entry i on; ws[i] is the
\* weight matrix drawn for input_layers[i]
add_inputs(self, h, input_layers, ws) ==
    IF input_layers = << >> THEN self
    ELSE LET k == Head(input_layers) IN
         add_inputs(add_input(self, h[k].name, k, layer_n(h, k), Head(ws), {}),
                    h, Tail(input_layers), Tail(ws))
\* FeedForwardLayer.__init__ (the parameters: name, n, input_layers, activation,
\* biases, << >> for None): the parent's fields, then the inputs, the biases and
\* firingrate_prime
FeedForwardLayer__init__(p, h, ws) ==
    IF p.input_layers.type # "list" THEN Failed("AssertionError")
    ELSE LET self == [ Population("FeedForwardLayer", p.name) EXCEPT
                         !.n = p.n, !.firingrate = Zeros(p.n),
                         !.noise = Zeros(p.n), !.activation = p.activation,
                         !.biases = IF p.biases = << >> THEN Zeros(p.n)
                                    ELSE p.biases,
                         !.firingrate_prime = Zeros(p.n) ]
         IN Built(add_inputs(self, h, p.input_layers.value, ws), << >>)

\* the result of a get_state of a layer: what it raised, the rates, the
\* populations as the call left them, the upstream get_state calls made
\* (<<population, evaluate_at, kwargs>>) and the populations whose stored
\* firingrate was read
Result(raised, value, h, calls, reads) ==
    [raised |-> raised, value |-> value, heap |-> h, calls |-> calls, reads |-> reads]

\* a get_state that stores a derivative in every mode (for a batch, the one at
\* its first position)
firingrate_prime_always(self, V, evaluate_at, cols) ==
    IF cols = 0 THEN [r \in DOMAIN V |-> activate_deriv(V[r], self.activation)]
    ELSE [r \in DOMAIN V |-> activate_deriv(V[r][1], self.activation)]
\* self.firingrate_prime after get_state: utils.activate(V, deriv=True) when
\* evaluate_at == "last", else what it was
firingrate_prime_after(self, V, evaluate_at, cols) ==
    IF evaluate_at = "last"
    THEN [r \in DOMAIN V |-> activate_deriv(V[r], self.activation)]
    ELSE self.firingrate_prime

\* the test 'evaluate_at == "last"' in the loop over the inputs
reads_stored(evaluate_at) == evaluate_at = "last"

\* The calls of get_state in progress are frames of a call stack: the layer k,
\* the index i of the entry of self.inputs the loop is at, the sum V so far,
\* and whether the frame waits for the get_state of that entry's layer.
Frame(h, k, cols) ==
    [k |-> k, i |-> 1, V |-> ZerosOfShape(h[k].n, cols), waiting |-> FALSE]
\* the body of the loop once I is known: inputlayer["I_temp"] = I and
\* V += np.matmul(w, I)
FeedForwardLayer_add(m, I, cols) ==
    LET d == Len(m.stack)
        top == m.stack[d]
        entry == m.heap[top.k].inputs[top.i]
        prod == matmul(entry.w, I, cols)
        V == IF prod.raised # "none" THEN prod ELSE PlusEq(top.V, prod.value, cols)
    IN [m EXCEPT !.heap[top.k].inputs[top.i].I_temp = I,
                 !.raised = V.raised,
                 !.stack[d] = [top EXCEPT !.i = top.i + 1, !.waiting = FALSE,
                                          !.V = IF V.raised = "none" THEN V.value
                                                ELSE top.V]]
\* the end of get_state: the biases (reshaped to a column for a batch), the
\* activation, and firingrate_prime in 'last' mode; the frame returns
FeedForwardLayer_return(m, evaluate_at, cols) ==
    LET d == Len(m.stack)
        top == m.stack[d]
        self == m.heap[top.k]
        V == PlusEq(top.V,
                    IF cols = 0 THEN self.biases
                    ELSE [r \in DOMAIN self.biases |->
                            [j \in 1..cols |-> self.biases[r]]],
                    cols)
    IN IF V.raised # "none" THEN [m EXCEPT !.raised = V.raised]
       ELSE [m EXCEPT
               !.value = activate_array(V.value, cols, self.activation),
               !.heap[top.k].firingrate_prime =
                   firingrate_prime_after(self, V.value, evaluate_at, cols),
               !.stack = SubSeq(m.stack, 1, d - 1)]
\* one step of the innermost get_state in progress: it returns after the last
\* entry; it takes the value the entry's layer returned; or it gets I for the
\* entry, from the stored firingrate in 'last' mode, else from the layer's
\* get_state(evaluate_at, **kwargs), which for a FeedForwardLayer is a new
\* frame. A layer that is already on the stack with the same arguments
\* recurses without end, which Python stops with a RecursionError.
FeedForwardLayer_step(m, evaluate_at, kwargs, cols) ==
    LET d == Len(m.stack)
        top == m.stack[d]
        self == m.heap[top.k]
    IN IF top.i > Len(self.inputs) THEN FeedForwardLayer_return(m, evaluate_at, cols)
       ELSE IF top.waiting THEN FeedForwardLayer_add(m, m.value, cols)
       ELSE
       LET up == self.inputs[top.i].layer
           call == <<up, evaluate_at, kwargs>>
       IN IF reads_stored(evaluate_at)
          THEN FeedForwardLayer_add([m EXCEPT !.reads = @ \cup {up}],
                                    layer_firingrate(m.heap, up), cols)
          ELSE IF m.heap[up].kind # "FeedForwardLayer"
          THEN LET res == get_state_at(evaluate_at, kwargs)
                   called == [m EXCEPT !.calls = @ \cup {call}]
               IN IF res.raised # "none" THEN [called EXCEPT !.raised = res.raised]
                  ELSE FeedForwardLayer_add(called, res.value, cols)
          ELSE IF \E f \in DOMAIN m.stack : m.stack[f].k = up
          THEN [m EXCEPT !.calls = @ \cup {call}, !.raised = "RecursionError"]
          ELSE [m EXCEPT !.calls = @ \cup {call},
                         !.stack = Append([m.stack EXCEPT ![d].waiting = TRUE],
                                          Frame(m.heap, up, cols))]
RECURSIVE FeedForwardLayer_run(_, _, _, _)
\* the steps until the outermost get_state returns or an exception leaves it
\* (m is m0, evaluated once)
FeedForwardLayer_run(m0, evaluate_at, kwargs, cols) ==
    CHOOSE end \in
        { IF m.raised # "none" \/ m.stack = << >> THEN m
          ELSE FeedForwardLayer_run(
                   FeedForwardLayer_step(m, evaluate_at, kwargs, cols),
                   evaluate_at, kwargs, cols) : m \in {m0} } : TRUE
\* FeedForwardLayer.get_state(evaluate_at, **kwargs) of the layer at index k:
\* V is allocated (a custom batch needs kwargs["pos"]), then the loop over the
\* inputs runs
FeedForwardLayer_get_state(h, k, evaluate_at, kwargs) ==
    IF evaluate_at \notin {"last", "all"} /\ kwargs.pos = << >>
    THEN Result("KeyError", << >>, h, {}, {})
    ELSE
    LET cols == CASE evaluate_at = "last" -> 0
                  [] evaluate_at = "all" -> Len(flattened_discrete_coords)
                  [] OTHER -> Len(kwargs.pos)
    IN CHOOSE res \in
        { Result(m.raised, IF m.raised = "none" THEN m.value ELSE << >>, m.heap,
                 m.calls, m.reads) :
            m \in {FeedForwardLayer_run(
                      [ stack |-> <<Frame(h, k, cols)>>, heap |-> h, calls |-> {},
                        reads |-> {}, raised |-> "none", value |-> << >> ],
                      evaluate_at, kwargs, cols)} } : TRUE

\* ---------------------------------------------- feed-forward layers: actions
\* the indices of the FeedForwardLayers among Agent.Neurons
Layers == {k \in DOMAIN Agent.Neurons : Agent.Neurons[k].kind = "FeedForwardLayer"}
\* the calls of get_state on a layer: the default, over the Environment, at a
\* batch of positions, and at the Agent
LayerCalls ==
    {<<"last", NoKwargs>>, <<"all", NoKwargs>>, <<"agent", NoKwargs>>,
     <<"None", [NoKwargs EXCEPT !.pos = << <<2, 1>> >>]>>}
\* layer.get_state(evaluate_at, **kwargs), called from outside update()
GetStateLayerFrom(calls) ==
    /\ \E k \in Layers : \E call \in calls :
        \E res \in {FeedForwardLayer_get_state(Agent.Neurons, k, call[1], call[2])} :
            /\ Agent' = [Agent EXCEPT !.Neurons = res.heap]
            /\ ret' = [ op |-> "get_state", layer |-> k, raised |-> res.raised,
                        state |-> res.value, evaluate_at |-> call[1],
                        kwargs |-> call[2], calls |-> res.calls,
                        reads |-> res.reads ]
    /\ UNCHANGED <<params, n, firingrate, noise, history, completed, discarded,
                   Environment, attrs>>
GetStateLayer == GetStateLayerFrom(LayerCalls)
\* layer.update(): Neurons.update() on a FeedForwardLayer (noise_std = 0, so the
\* normal sample does not enter; save_history is False)
UpdateLayer ==
    /\ \E k \in Layers :
        /\ \E res \in {IF IsNaN(Agent.pos[1])
                       THEN Result("none", Zeros(Agent.Neurons[k].n), Agent.Neurons,
                                   {}, {})
                       ELSE FeedForwardLayer_get_state(Agent.Neurons, k, "last",
                                                       NoKwargs)} :
            LET self == res.heap[k]
                noise1 == VecAdd(self.noise,
                                 ornstein_uhlenbeck(self.noise, 0, Zeros(self.n)))
                fr2 == VecAdd(res.value, noise1)
                call == [ op |-> "update", layer |-> k, raised |-> res.raised,
                          state |-> res.value, evaluate_at |-> "last",
                          kwargs |-> NoKwargs, calls |-> res.calls,
                          reads |-> res.reads ]
            IN /\ ret' = call
               /\ Agent' = [Agent EXCEPT !.Neurons =
                    IF res.raised # "none"
                    THEN [res.heap EXCEPT ![k].noise = noise1]
                    ELSE [res.heap EXCEPT ![k].noise = noise1, ![k].firingrate = fr2]]
    /\ UNCHANGED <<params, n, firingrate, noise, history, completed, discarded,
                   Environment, attrs>>

\* the place cells that feed the layers: one-hot, with noise, no history
InputParamSets ==
    {p \in PlaceCellsParams({SubSeq(CentreList, 1, MaxN)}, {<<0, 2>>}, {"one_hot"}) :
        p.noise_std = 1 /\ ~p.save_history}
\* the parameters of the layer fed by the place cells (their index is 1):
\* 'linear' with biases None and with biases given, 'relu' with biases None;
\* and the weights it starts with (the draw of add_input)
LayerParamSets ==
    { [ name |-> "FeedForwardLayer", n |-> MaxN, input_layers |-> List(<<1>>),
        activation |-> ab[1], biases |-> ab[2] ] :
        ab \in { <<"linear", << >> >>, <<"relu", << >> >>,
                 <<"linear", [i \in 1..MaxN |-> 1]>> } }
LayerWeights == {Eye(MaxN), Ones(MaxN, MaxN)}
\* the place cells and a layer they feed, and (chain) a one-cell layer which
\* that layer feeds; the layers of other than the default parameters have
\* identity weights
InitLayers(chain) ==
    \E p \in InputParamSets : \E q \in LayerParamSets :
    \E w \in {x \in LayerWeights :
                x = Eye(MaxN) \/ (q.activation = "linear" /\ q.biases = << >>)} :
        LET self == Construct(p)
            h1 == << Population(p.kind, p.kind) >>
            h2 == Append(h1, FeedForwardLayer__init__(q, h1, <<w>>).self)
            h3 == Append(h2, FeedForwardLayer__init__(
                                [ name |-> "Output", n |-> 1,
                                  input_layers |-> List(<<2>>),
                                  activation |-> "relu", biases |-> << >> ],
                                h2, <<Ones(1, MaxN)>>).self)
        IN
        /\ params = self.params
        /\ n = self.n
        /\ firingrate = self.firingrate
        /\ noise = self.noise
        /\ history = self.history
        /\ Agent = WithNeurons(AgentInit("2D", <<1, 1>>), IF chain THEN h3 ELSE h2)
        /\ ret = NoCall
        /\ completed = 0
        /\ discarded = FALSE
        /\ Environment = Corridor
        /\ attrs = << >>
InitFeedForward == InitLayers(FALSE)
NextFeedForward == GetStateLayer \/ UpdateLayer \/ Update \/ AgentWalk
SpecFeedForward == InitFeedForward /\ [][NextFeedForward]_vars
InitFeedForwardChain == InitLayers(TRUE)
NextFeedForwardChain == GetStateLayer \/ UpdateLayer \/ AgentWalk
SpecFeedForwardChain == InitFeedForwardChain /\ [][NextFeedForwardChain]_vars

\* -------------------------------------------- feed-forward layers: add_input
\* the keyword arguments add_input stores with the entry: <<key, value>>
InputKwargs == {{}, {<<"eta", 1>>}}
\* the w add_input is called with for a layer of rows cells and an input
\* layer of cols cells: None (<< >>), np.ones((self.n, input_layer.n)), or an
\* array of one row too many
WeightsPassed(which, rows, cols) ==
    CASE which = "None" -> << >>
      [] which = "ones" -> Ones(rows, cols)
      [] OTHER -> Ones(rows + 1, cols)
\* layer.add_input(input_layer, w=w, **kwargs) for a layer among targets and a
\* population of the Agent
AddInputTo(targets, kwargsPassed, weights) ==
    /\ \E k \in targets : \E input \in DOMAIN Agent.Neurons : \E kwargs \in kwargsPassed :
        LET self == Agent.Neurons[k]
            n_up == layer_n(Agent.Neurons, input)
            name == Agent.Neurons[input].name
        IN \E passed \in {WeightsPassed(which, self.n, n_up) : which \in weights} :
           \E w \in IF passed = << >> THEN RandomWeights(self.n, n_up) ELSE {passed} :
            /\ Agent' = [Agent EXCEPT !.Neurons[k] =
                            add_input(self, name, input, n_up, w, kwargs)]
            /\ ret' = [ op |-> "add_input", layer |-> k, raised |-> "none",
                        input |-> input, w |-> w, kwargs |-> kwargs,
                        replaced |-> {self.inputs[i].layer : i \in
                            {j \in DOMAIN self.inputs : self.inputs[j].name = name}} ]
    /\ UNCHANGED <<params, n, firingrate, noise, history, completed, discarded,
                   Environment, attrs>>
\* add_input on the first layer, with and without keyword arguments and weights
AddInput == AddInputTo({2}, InputKwargs, {"None", "oversized"})
\* add_input on any layer, with weights of the right shape
ConnectLayers == AddInputTo(Layers, {{}}, {"ones"})
\* get_state on a layer of the network, by default and over the Environment
GetStateNetwork == GetStateLayerFrom({<<"last", NoKwargs>>, <<"all", NoKwargs>>})
\* the place cells and two layers of the default name, without inputs (a
\* warning), of MaxN cells and of one cell
InitNetwork ==
    \E p \in InputParamSets :
        LET self == Construct(p)
            layer(k) == FeedForwardLayer__init__(
                            [ name |-> "FeedForwardLayer", n |-> k,
                              input_layers |-> List(<< >>),
                              activation |-> "linear", biases |-> << >> ],
                            << >>, << >>).self
        IN
        /\ params = self.params
        /\ n = self.n
        /\ firingrate = self.firingrate
        /\ noise = self.noise
        /\ history = self.history
        /\ Agent = WithNeurons(AgentInit("2D", <<1, 1>>),
                               << Population(p.kind, p.kind), layer(MaxN), layer(1) >>)
        /\ ret = NoCall
        /\ completed = 0
        /\ discarded = FALSE
        /\ Environment = Corridor
        /\ attrs = << >>
NextAddInput == AddInput \/ UpdateLayer
SpecAddInput == InitNetwork /\ [][NextAddInput]_vars
NextNetwork == ConnectLayers \/ GetStateNetwork
SpecNetwork == InitNetwork /\ [][NextNetwork]_vars

\* --------------------------------------- feed-forward layers: construction
\* the parameter dictionaries FeedForwardLayer is constructed with: the default
\* input_layers (an empty list) and a layer passed without a list around it
LayerConstructParamSets ==
    { [ kind |-> "FeedForwardLayer", name |-> "FeedForwardLayer", n |-> MaxN,
        input_layers |-> il, activation |-> "linear", biases |-> << >> ] :
        il \in {List(<< >>), [type |-> "Neurons", value |-> << >>]} }
\* FeedForwardLayer(Agent, params) while no population is held and none is
\* registered: super().__init__ appends the layer to Agent.Neurons, then the
\* constructor checks input_layers; the layer it returns is the one registered
ConstructLayer ==
    /\ params.kind = "none" /\ Agent.Neurons = << >>
    /\ \E p \in LayerConstructParamSets :
        LET c == FeedForwardLayer__init__(p, Agent.Neurons, << >>) IN
        /\ ret' = [ op |-> "__init__", raised |-> c.raised,
                    get_state_called |-> FALSE, state |-> << >>, requested |-> p ]
        /\ Agent' = [Agent EXCEPT !.Neurons =
                        Append(@, IF c.raised = "none" THEN c.self
                                  ELSE Population(p.kind, p.name))]
    /\ UNCHANGED <<params, n, firingrate, noise, history, completed, discarded,
                   Environment, attrs>>
NextConstruct == ConstructPopulation \/ ConstructLayer \/ AddWall
SpecConstruct == InitConstruct /\ [][NextConstruct]_vars

\* ------------------------------------------------------------ properties
Updated == ret.op = "update"
Returned == ret.op = "update" /\ ret.raised = "none"
HasNaN(pos) == \E i \in DOMAIN pos : IsNaN(pos[i])
IsPrefix(a, b) == Len(a) <= Len(b) /\ \A k \in 1..Len(a) : b[k] = a[k]

\* C1: after construction and after any sequence of update() calls, firingrate
\* and noise both have length n, the population's cell count (1 for SpeedCell).
C1_VectorsHaveLengthN ==
    Len(firingrate) = n /\ Len(noise) = n

\* C2: with save_history enabled, reset_history() followed by exactly one
\* update() leaves t, firingrate and spikes of the history each of length 1,
\* whatever the history held before the reset.
C2_ResetThenOneUpdate ==
    (params.save_history /\ completed = 1) =>
        /\ Len(history.t) = 1
        /\ Len(history.firingrate) = 1
        /\ Len(history.spikes) = 1

\* a non-empty history was reset and one update() has returned since
C2_Witness ==
    params.save_history /\ discarded /\ completed = 1 /\ Returned

\* C3: with save_history enabled the three history sequences have the same
\* length, the number of update() calls completed since the last
\* reset_history() (or since construction).
C3_HistoryLengthsCountUpdates ==
    params.save_history =>
        /\ Len(history.t) = completed
        /\ Len(history.firingrate) = completed
        /\ Len(history.spikes) = completed

\* two updates have returned since a non-empty history was reset
C3_Witness ==
    params.save_history /\ discarded /\ completed >= 2 /\ Len(history.t) >= 2

\* C4: the history is append-only: a step that is not reset_history() removes,
\* reorders or changes no stored entry (time, rates, spikes), also when
\* firingrate is overwritten; only reset_history() shortens the history.
C4_HistoryAppendOnly ==
    [][ret'.op # "reset_history" =>
            /\ IsPrefix(history.t, history'.t)
            /\ IsPrefix(history.firingrate, history'.firingrate)
            /\ IsPrefix(history.spikes, history'.spikes)]_vars

\* an entry stored by an earlier update() differs from the rates held now
C4_Witness ==
    /\ Returned
    /\ Len(history.firingrate) >= 2
    /\ history.firingrate[1] # firingrate
    /\ history.firingrate[1] # history.firingrate[2]

\* C5: with save_history False every update() leaves the history empty, adds an
\* Ornstein-Uhlenbeck step to the noise and, when it returns, stores the model
\* output plus the new noise as firingrate.
C5_NoHistoryStillRefreshed ==
    [][(~params.save_history /\ ret'.op = "update") =>
            /\ history' = EmptyHistory
            /\ \E xi \in Normals(Len(noise)) :
                 noise' = VecAdd(noise, ornstein_uhlenbeck(noise, params.noise_std, xi))
            /\ (ret'.raised = "none" => firingrate' = VecAdd(ret'.state, noise'))]_vars

\* two updates returned without history, and rates and noise are not the zeros
\* of the construction
C5_Witness ==
    /\ ~params.save_history /\ Returned /\ completed >= 2
    /\ history = EmptyHistory
    /\ \E i \in DOMAIN noise : noise[i] # 0
    /\ \E i \in DOMAIN firingrate : firingrate[i] # noise[i]

\* C6: if any coordinate of Agent.pos is NaN when update() is called, the
\* type-specific get_state is not invoked, no error is raised and the model
\* output is the zero vector of length n, so the stored firingrate is the noise
\* alone.  (Stated of the populations that have a get_state of their own.)
C6_NaNPositionGivesZeros ==
    (Updated /\ HasNaN(Agent.pos) /\ params.kind # "Neurons") =>
        /\ ~ret.get_state_called
        /\ ret.raised = "none"
        /\ ret.state = Zeros(n)
        /\ firingrate = noise

\* C7: update() on a population without a get_state of its own, at a position
\* without NaN, fails with NotImplementedError, appends nothing to the history
\* and leaves firingrate as it was.
C7_BaseUpdateFails ==
    [][(params.kind = "Neurons" /\ ret'.op = "update" /\ ~HasNaN(Agent.pos)) =>
            /\ ret'.get_state_called
            /\ ret'.raised = "NotImplementedError"
            /\ history' = history
            /\ firingrate' = firingrate]_vars

\* the failing update() found a history entry and a non-zero firingrate to keep
C7_Witness ==
    /\ params.kind = "Neurons" /\ Updated /\ ret.raised = "NotImplementedError"
    /\ ~HasNaN(Agent.pos)
    /\ history.t # << >>
    /\ \E i \in DOMAIN firingrate : firingrate[i] # 0

\* C8: with noise_std = 0 the noise is all-zero after construction and after
\* every update(), and the firingrate update() stores is the model output
\* (get_state's result, or zeros at a NaN position) exactly.
C8_NoNoiseStoresModelOutput ==
    params.noise_std = 0 =>
        /\ \A i \in DOMAIN noise : noise[i] = 0
        /\ (Returned => firingrate = ret.state)

\* C9: the logged spike of a cell is "uniform sample < dt * rate" without a
\* clamp: a logged rate with dt * rate >= 1 is logged as spiking, a logged rate
\* <= 0 as not spiking.
C9_SpikesUnclamped ==
    \A k \in DOMAIN history.firingrate :
        \A i \in DOMAIN history.firingrate[k] :
            LET rate == history.firingrate[k][i]
                spike == history.spikes[k][i]
            IN /\ (~IsNaN(rate) /\ rate >= DtInv) => spike
               /\ (IsNaN(rate) \/ rate <= 0) => ~spike

\* the history holds a cell at dt * rate >= 1, one at rate 0 and one below 0
C9_Witness ==
    /\ \E k \in DOMAIN history.firingrate : \E i \in DOMAIN history.firingrate[k] :
          history.firingrate[k][i] >= DtInv /\ history.spikes[k][i]
    /\ \E k \in DOMAIN history.firingrate : \E i \in DOMAIN history.firingrate[k] :
          history.firingrate[k][i] = 0 /\ ~history.spikes[k][i]
    /\ \E k \in DOMAIN history.firingrate : \E i \in DOMAIN history.firingrate[k] :
          history.firingrate[k][i] < 0 /\ ~IsNaN(history.firingrate[k][i])

\* get_state of one_hot place cells was evaluated by the last update()
OneHotEvaluated ==
    /\ params.kind = "PlaceCells" /\ params.description = "one_hot"
    /\ Updated /\ ret.get_state_called

\* exactly one cell is at max_fr, the others at min_fr, and no centre is nearer
\* to the position than the firing cell's
OneHotAtNearest ==
    LET dist == Dist(Agent.pos) IN
    \E k \in 1..n :
        /\ ret.state[k] = params.max_fr
        /\ \A j \in (1..n) \ {k} :
              ret.state[j] = params.min_fr /\ ret.state[j] # params.max_fr
        /\ \A j \in 1..n : ~Less(Abs(dist[j]), Abs(dist[k]))

\* C10: one_hot place cells: for every query position exactly one cell has rate
\* max_fr and all others min_fr, and the firing cell's centre is at the smallest
\* distance to the position, also when two centres are equidistant.
C10_OneHotExactlyOne ==
    OneHotEvaluated => OneHotAtNearest

\* C10 as amended: the same whenever min_fr and max_fr differ.
C10_OneHotExactlyOneOfDistinctRates ==
    (OneHotEvaluated /\ params.min_fr # params.max_fr) => OneHotAtNearest

\* two centres are equidistant from the position and the first of them fires
C10_Witness ==
    /\ OneHotEvaluated /\ params.min_fr # params.max_fr /\ n >= 2
    /\ Dist(Agent.pos)[1] = Dist(Agent.pos)[2]
    /\ ~IsNaN(Dist(Agent.pos)[1])
    /\ ret.state[1] = params.max_fr


\* get_state was called from outside update() and returned
Evaluates == ret.op = "get_state" /\ ret.raised = "none"

\* C11: every value get_state returns lies in [min_fr, max_fr] (so the response
\* before the rescale lies in [0, 1]), for every query position and tuning
C11_RatesWithinBounds ==
    Evaluates =>
        \A i \in DOMAIN ret.state : \A j \in DOMAIN ret.state[i] :
            /\ ret.state[i][j] >= params.min_fr * One
            /\ ret.state[i][j] <= params.max_fr * One

\* the number of query positions of the last call: 1 at the Agent, else the
\* positions of the Environment or the positions passed
n_positions ==
    CASE ret.evaluate_at = "agent" -> 1
      [] ret.evaluate_at = "all" -> Len(flattened_discrete_coords)
      [] OTHER -> Len(ret.kwargs.pos)
\* C12: in every evaluation mode get_state returns a matrix of shape
\* (n, n_positions)
C12_ShapeIsCellsByPositions ==
    Evaluates => ret.shape = <<n, n_positions>>

\* C13: with no object in the Environment, ObjectVectorCells.get_state returns
\* exactly 0 for every cell and position, whatever min_fr, max_fr and the
\* reference frame are
C13_NoObjectsGiveZero ==
    (Evaluates /\ params.kind = "ObjectVectorCells" /\ Len(Environment.objects) = 0) =>
        /\ ret.shape = <<attrs.n, Len(ret.pos)>>
        /\ \A i \in 1..attrs.n : \A j \in DOMAIN ret.pos : ret.state[i][j] = 0
\* an egocentric population with min_fr = 1 evaluated at several positions of an
\* Environment without objects
C13_Witness ==
    /\ Evaluates /\ params.kind = "ObjectVectorCells"
    /\ Len(Environment.objects) = 0
    /\ params.min_fr = 1 /\ attrs.reference_frame = "egocentric"
    /\ Len(ret.pos) >= 2
    /\ \A i \in 1..attrs.n : \A j \in DOMAIN ret.pos : ret.state[i][j] = 0

\* the objects of the type cell i is tuned to
ObjectsOfTuningType(i) ==
    SelectSeq([o \in DOMAIN Environment.objects |-> o],
              LAMBDA o : Environment.object_types[o] = attrs.tuning_types[i])
\* the Environment with only those objects
EnvironmentOfTuningType(i) ==
    LET kept == ObjectsOfTuningType(i) IN
    [Environment EXCEPT
        !.objects = [m \in DOMAIN kept |-> Environment.objects[kept[m]]],
        !.object_types = [m \in DOMAIN kept |-> Environment.object_types[kept[m]]]]
\* C14: the objects of another type than a cell's tuning type contribute nothing
\* to its rate (the rate is the one the objects of its type alone would give), so
\* a cell whose type no object has is at min_fr at every position
C14_OtherTypesContributeZero ==
    (Evaluates /\ params.kind = "ObjectVectorCells" /\ Len(Environment.objects) > 0) =>
        \A i \in 1..attrs.n : \A j \in DOMAIN ret.pos :
            /\ ret.state[i][j] =
                 Rescaled(params,
                     ObjectVectorCells_response(attrs, EnvironmentOfTuningType(i),
                         ret.pos[j], head_bearing(ret.evaluate_at, ret.kwargs), i))
            /\ ObjectsOfTuningType(i) = << >> => ret.state[i][j] = params.min_fr * One
\* a cell whose type no object has stays at min_fr while another cell responds
\* to the same objects
C14_Witness ==
    /\ Evaluates /\ params.kind = "ObjectVectorCells"
    /\ Len(Environment.objects) > 0
    /\ \E i, k \in 1..attrs.n :
        /\ ObjectsOfTuningType(i) = << >>
        /\ \A j \in DOMAIN ret.pos : ret.state[i][j] = params.min_fr * One
        /\ \E j \in DOMAIN ret.pos : ret.state[k][j] > params.min_fr * One

\* an intersection at a positive ray parameter and a wall parameter in [0, 1]
ValidIntersection(x) ==
    /\ x[1][1] > 0 /\ x[1][2] > 0
    /\ x[2][2] > 0 /\ x[2][1] >= 0 /\ x[2][1] <= x[2][2]
\* C15: for every position and test direction of an evaluation, the wall whose
\* distance is used is a valid intersection, and no valid intersection of that
\* ray is nearer
C15_FirstWallIsNearestValid ==
    (Evaluates /\ params.kind = "BoundaryVectorCells") =>
        \A j \in DOMAIN ret.pos : \A k \in DOMAIN attrs.test_directions :
            LET x == pos_lineseg_wall_intercepts(ret.pos[j], attrs.test_directions[k],
                                                 Environment.walls)
                used == x[first_wall_for_each_direction_id(x)]
            IN /\ ValidIntersection(used)
               /\ \A w \in DOMAIN x :
                    ValidIntersection(x[w]) => ~FracLess(x[w][1], used[1])

\* C16: the test angles are the 360/dtheta distinct angles k * dtheta,
\* k = 0 .. 360/dtheta - 1, and each test direction is the unit vector at its
\* test angle
C16_TestAnglesCoverCircle ==
    params.kind = "BoundaryVectorCells" =>
        /\ Len(attrs.test_angles) = 360 \div params.dtheta
        /\ \A k \in DOMAIN attrs.test_angles :
            /\ attrs.test_angles[k] = (k - 1) * params.dtheta
            /\ attrs.test_directions[k] =
                 <<Cos(attrs.test_angles[k]), Sin(attrs.test_angles[k])>>
        /\ \A k, m \in DOMAIN attrs.test_angles :
            k # m => attrs.test_angles[k] # attrs.test_angles[m]

\* the rates of cell i at the positions of a batch when the summed response is
\* divided by the stored cell_fr_norm
DividedByStored(batch, bearing) ==
    [i \in 1..attrs.n |-> [j \in DOMAIN batch |->
        Rescaled(params,
            Quot(BoundaryVectorCells_g(attrs,
                    dist_to_first_wall(batch[j], attrs.test_directions,
                                       Environment.walls),
                    bearing, i),
                 attrs.cell_fr_norm[i]))]]
\* cell_fr_norm is the scan of the walls of the construction, and the last
\* get_state (called directly, or by update()) divided by it
UsesStoredNorm ==
    /\ attrs.cell_fr_norm = BoundaryVectorCells_scan(attrs, params, Corridor.walls)
    /\ Evaluates =>
         ret.state = DividedByStored(ret.pos, head_bearing(ret.evaluate_at, ret.kwargs))
    /\ Returned =>
         ret.state = Flat(DividedByStored(<<Agent.pos>>, get_angle(Agent.head_direction)))
\* C17: no step (update(), get_state() in any mode, a wall added) changes
\* cell_fr_norm, and get_state goes on dividing by the constant of the
\* construction
C17_NormFixedAtConstruction ==
    /\ [][attrs'.cell_fr_norm = attrs.cell_fr_norm]_vars
    /\ []UsesStoredNorm
\* after an update() and an added wall, get_state has divided by a constant that
\* a scan of the present walls would not give
C17_Witness ==
    /\ Evaluates /\ completed > 0
    /\ Len(Environment.walls) > Len(Corridor.walls)
    /\ attrs.cell_fr_norm # BoundaryVectorCells_scan(attrs, params, Environment.walls)
    /\ ret.state = DividedByStored(ret.pos, head_bearing(ret.evaluate_at, ret.kwargs))

\* get_state over the grid scanned at construction, with min_fr = 0 and
\* max_fr = 1, while cell_fr_norm is the scan of the present walls
ScanGridEvaluated ==
    /\ Evaluates /\ params.kind = "BoundaryVectorCells"
    /\ params.min_fr = 0 /\ params.max_fr = 1
    /\ ret.evaluate_at = "None" /\ ret.pos = discretise_environment
    /\ attrs.cell_fr_norm = BoundaryVectorCells_scan(attrs, params, Environment.walls)
\* the largest rate of every cell is exactly 1
MaxRateIsOne == \A i \in 1..attrs.n : MaxSeq(ret.state[i]) = One
\* C18 (as stated): over the grid scanned at construction the largest rate of
\* every cell is 1
C18_ScanGridMaxIsOne == ScanGridEvaluated => MaxRateIsOne
\* the heading the scan of the construction used: [1, 0], which is what
\* get_state takes when no head_direction is passed
ScanHeading == head_bearing(ret.evaluate_at, ret.kwargs) = 0
\* C18 (amended): for allocentric cells, and for egocentric cells evaluated at the
\* heading of the scan, the largest rate of every cell over the scanned grid
\* is 1
C18_ScanGridMaxIsOneAtScanHeading ==
    (ScanGridEvaluated /\ (attrs.reference_frame = "allocentric" \/ ScanHeading))
        => MaxRateIsOne
\* egocentric cells evaluated over the scanned grid at the scan's heading, with
\* a cell below 1 at one of the positions
C18_Witness ==
    /\ ScanGridEvaluated /\ attrs.reference_frame = "egocentric" /\ ScanHeading
    /\ MaxRateIsOne
    /\ \E i \in 1..attrs.n : \E j \in DOMAIN ret.pos : ret.state[i][j] < One

\* a constructor was called, and a PlaceCells one in a 2D Environment
Constructs == ret.op = "__init__"
PlaceCellsConstructs ==
    /\ Constructs /\ ret.requested.kind = "PlaceCells"
    /\ Environment.dimensionality = "2D"
\* solid boundaries and at most one wall beyond the four boundary walls
GeodesicSupported ==
    Environment.boundary_conditions = "solid" /\ Len(Environment.walls) <= 5
\* what the claim concludes from the wall geometry of the population
NeverGeodesicUnsupported ==
    (Len(Environment.walls) > 5 \/ Environment.boundary_conditions = "periodic")
        => attrs.wall_geometry # "geodesic"
\* C19 (as stated): 'geodesic' where it is not supported becomes 'line_of_sight'
\* without a failure, every other request is kept, and so the wall geometry is
\* never 'geodesic' with more than 5 walls or periodic boundaries
C19_GeodesicFallsBackToLineOfSight ==
    PlaceCellsConstructs =>
        /\ ret.raised = "none"
        /\ attrs.wall_geometry =
             IF ret.requested.wall_geometry = "geodesic" /\ ~GeodesicSupported
             THEN "line_of_sight" ELSE ret.requested.wall_geometry
        /\ NeverGeodesicUnsupported
\* C19 (amended): with periodic boundaries 'geodesic' and 'line_of_sight' both
\* become 'euclidean'; with solid boundaries and more than 5 walls 'geodesic'
\* becomes 'line_of_sight'; every other request is kept; the constructor never
\* fails, and the wall geometry is never 'geodesic' with more than 5 walls or
\* periodic boundaries
C19_GeodesicFallback ==
    PlaceCellsConstructs =>
        /\ ret.raised = "none"
        /\ attrs.wall_geometry =
             IF /\ Environment.boundary_conditions = "periodic"
                /\ ret.requested.wall_geometry \in {"geodesic", "line_of_sight"}
             THEN "euclidean"
             ELSE IF /\ ret.requested.wall_geometry = "geodesic"
                     /\ Len(Environment.walls) > 5
             THEN "line_of_sight"
             ELSE ret.requested.wall_geometry
        /\ NeverGeodesicUnsupported
\* 'geodesic' requested with solid boundaries and six walls: 'line_of_sight'
C19_Witness ==
    /\ PlaceCellsConstructs /\ ret.raised = "none"
    /\ ret.requested.wall_geometry = "geodesic"
    /\ Environment.boundary_conditions = "solid" /\ Len(Environment.walls) > 5
    /\ attrs.wall_geometry = "line_of_sight"

\* the number of cells a GridCells request asks for
RequestedGridCells ==
    IF ret.requested.gridscale.type = "list"
    THEN Len(ret.requested.gridscale.value) ELSE ret.requested.n
\* a list of another length than the number of cells
Mismatched(param, k) == param.type = "list" /\ Len(param.value) # k
\* the four tuning arrays of a request have one length
EqualTuningArrays(c) ==
    /\ Len(c.tuning_distances) = Len(c.tuning_angles)
    /\ Len(c.tuning_distances) = Len(c.sigma_distances)
    /\ Len(c.tuning_distances) = Len(c.sigma_angles)
\* the per-cell arrays of the population held all have length n
ArraysHaveLengthN ==
    CASE params.kind = "GridCells" ->
            /\ Len(attrs.gridscales) = n
            /\ Len(attrs.phase_offsets) = n
            /\ Len(attrs.orientations) = n
      [] params.kind \in {"BoundaryVectorCells", "ObjectVectorCells"} ->
            /\ attrs.n = n
            /\ Len(attrs.tuning_distances) = n /\ Len(attrs.tuning_angles) = n
            /\ Len(attrs.sigma_distances) = n /\ Len(attrs.sigma_angles) = n
            /\ params.kind = "ObjectVectorCells" => Len(attrs.tuning_types) = n
      [] OTHER -> TRUE
VelocityCellsEvaluated ==
    ret.op = "get_state" /\ ret.raised = "none" /\ params.kind = "VelocityCells"
\* the rate of head direction cell i of the same tunings, for the heading the
\* call selects
HDC_firingrate(i) ==
    HeadDirectionCells_state(attrs, params,
        HeadDirectionCells_head_direction(ret.evaluate_at, ret.kwargs)).value[i]
\* rate = head direction rate * |Agent.velocity| / one_sigma_speed, with the
\* division done first as the code does it
ScaledBySpeed ==
    VelocityCellsEvaluated =>
        \A i \in 1..n :
            LET scale == (Norm(Agent.velocity) * One) \div attrs.one_sigma_speed
            IN ret.state[i] =
                 IF params.dimensionality = "1D" THEN HDC_firingrate(i) * scale
                 ELSE (HDC_firingrate(i) * scale) \div One
\* at zero speed every rate is 0
ZeroAtRest ==
    (VelocityCellsEvaluated /\ Norm(Agent.velocity) = 0) =>
        \A i \in 1..n : ret.state[i] = 0
\* C24: the rate a VelocityCells get_state returns is the head direction rate
\* times |Agent.velocity| / (speed_mean + speed_std), the denominator being the
\* one of the construction; at zero Agent speed every rate is 0 even with
\* min_fr > 0, and the speed is the Agent's also when a heading or a velocity is
\* passed
C24_RateScaledByAgentSpeed ==
    /\ attrs.one_sigma_speed = Agent.speed_mean + Agent.speed_std
    /\ [][attrs'.one_sigma_speed = attrs.one_sigma_speed]_vars
    /\ [](ScaledBySpeed /\ ZeroAtRest)
\* the Agent at rest, its mean speed changed since the construction, min_fr > 0
\* and a velocity passed: every rate is 0
C24_Witness ==
    /\ VelocityCellsEvaluated /\ Norm(Agent.velocity) = 0
    /\ attrs.one_sigma_speed # Agent.speed_mean + Agent.speed_std
    /\ params.min_fr > 0 /\ ret.kwargs.vel # << >> /\ ret.evaluate_at = "None"
    /\ \A i \in 1..n : ret.state[i] = 0 /\ HDC_firingrate(i) > 0

\* a get_state of a kind that looks at the heading was called
HeadingEvaluated ==
    /\ ret.op = "get_state"
    /\ \/ params.kind = "HeadDirectionCells"
       \/ /\ params.kind \in {"BoundaryVectorCells", "ObjectVectorCells"}
          /\ attrs.reference_frame = "egocentric"
          /\ params.kind = "ObjectVectorCells" => Len(Environment.objects) > 0
\* nothing passed the call selects a heading from
NoHeadingPassed ==
    ret.evaluate_at # "agent" /\ ret.kwargs.head_direction = << >>
        /\ ret.kwargs.vel = << >>
\* the heading the stated priority order selects, the default last
PriorityHeading ==
    IF ret.evaluate_at = "agent" THEN Agent.head_direction
    ELSE IF ret.kwargs.head_direction # << >> THEN ret.kwargs.head_direction
    ELSE IF ret.kwargs.vel # << >> THEN ret.kwargs.vel
    ELSE IF params.dimensionality = "1D" THEN <<1>> ELSE <<1, 0>>
\* the rates of the population at the positions of the call for a heading h
RatesAtHeading(h) ==
    CASE params.kind = "HeadDirectionCells" ->
            HeadDirectionCells_state(attrs, params, h).value
      [] params.kind = "BoundaryVectorCells" ->
            BoundaryVectorCells_rates(attrs, params, Environment.walls, ret.pos,
                                      get_angle(h))
      [] params.kind = "ObjectVectorCells" ->
            ObjectVectorCells_rates(attrs, params, Environment, ret.pos, get_angle(h))
AgentHasHeading == \E k \in DOMAIN Agent.head_direction : Agent.head_direction[k] # 0
\* the call returned the rates for the heading of the priority order
UsesPriorityHeading ==
    HeadingEvaluated => ret.raised = "none" /\ ret.state = RatesAtHeading(PriorityHeading)
\* C29 (as stated): the default [1, 0] is used, with a warning, only when no
\* heading or velocity is passed and the Agent has no current heading; otherwise
\* the heading is the Agent's when evaluating at the agent, else the
\* 'head_direction' passed, else the 'vel' passed; the call never fails
C29_DefaultOnlyWithoutAgentHeading ==
    /\ UsesPriorityHeading
    /\ HeadingEvaluated =>
        /\ NoHeadingPassed => "default" \in ret.warned
        /\ "default" \in ret.warned => (NoHeadingPassed /\ ~AgentHasHeading)
\* C29 (amended): the default ([1, 0]; [1] for head direction cells in 1D) is
\* used exactly when the evaluation is not at the agent and neither
\* 'head_direction' nor 'vel' is passed, whether or not the Agent has a heading;
\* the vector cells warn then, the head direction cells do not; otherwise the
\* heading is the Agent's when evaluating at the agent, else the
\* 'head_direction' passed, else the 'vel' passed (with a deprecation warning);
\* the call never fails
C29_HeadingPriority ==
    /\ UsesPriorityHeading
    /\ HeadingEvaluated =>
        /\ "default" \in ret.warned <=>
             (NoHeadingPassed /\ params.kind # "HeadDirectionCells")
        /\ "deprecated" \in ret.warned <=>
             /\ ret.evaluate_at # "agent"
             /\ ret.kwargs.head_direction = << >> /\ ret.kwargs.vel # << >>
\* egocentric boundary vector cells evaluated over the Environment with nothing
\* passed while the Agent heads along [0, 1]: the rates are those of the
\* heading [1, 0], not those of the Agent's heading
C29_Witness ==
    /\ HeadingEvaluated /\ params.kind = "BoundaryVectorCells"
    /\ ret.evaluate_at = "all" /\ NoHeadingPassed
    /\ Agent.head_direction = <<0, 1>>
    /\ "default" \in ret.warned
    /\ ret.state = RatesAtHeading(<<1, 0>>)
    /\ ret.state # RatesAtHeading(Agent.head_direction)

\* a get_state of the grid cells returned the rates of a batch of positions
GridCellsEvaluated ==
    ret.op = "get_state" /\ params.kind = "GridCells" /\ ret.raised = "none"
\* the basis direction w1 of cell i (orientations are multiples of 90 degrees)
GridCells_w1(i) == rotate(<<1, 0>>, attrs.orientations[i])
\* position q is position p translated by one gridscale of cell i along w1
TranslatedByGridscale(i, p, q) ==
    \A k \in 1..2 : q[k] = p[k] + attrs.gridscales[i] * GridCells_w1(i)[k]
\* C25: the rate of every grid cell at p equals its rate at p translated by one
\* gridscale along a basis direction (here w1)
C25_PeriodicAlongBasis ==
    GridCellsEvaluated =>
        \A i \in DOMAIN ret.state : \A j, k \in DOMAIN ret.pos :
            TranslatedByGridscale(i, ret.pos[j], ret.pos[k])
                => ret.state[i][j] = ret.state[i][k]

\* the last call was the operation op of a FeedForwardLayer
LayerCall(op) == ret.op = op /\ "layer" \in DOMAIN ret
\* the populations that feed the layer at index k
Upstream(k) ==
    {Agent.Neurons[k].inputs[i].layer : i \in DOMAIN Agent.Neurons[k].inputs}
\* the layer at index k is linear with zero biases and is fed by a single layer
\* of its own size through the identity matrix
IdentityLayer(k) ==
    LET self == Agent.Neurons[k] IN
    /\ self.activation = "linear" /\ self.biases = Zeros(self.n)
    /\ Len(self.inputs) = 1
    /\ self.inputs[1].w = Eye(self.n)
    /\ layer_n(Agent.Neurons, self.inputs[1].layer) = self.n
\* C21: get_state(evaluate_at='last') of a linear layer with zero biases and a
\* single input layer of the same size under the identity matrix returns the
\* firingrate the input population holds
C21_IdentityLayerReturnsInput ==
    (LayerCall("get_state") /\ ret.evaluate_at = "last" /\ IdentityLayer(ret.layer))
        => /\ ret.raised = "none"
           /\ ret.state = layer_firingrate(Agent.Neurons,
                              Agent.Neurons[ret.layer].inputs[1].layer)
\* such a layer returned the rates of place cells that hold noise, one of them
\* negative
C21_Witness ==
    /\ LayerCall("get_state") /\ ret.evaluate_at = "last" /\ IdentityLayer(ret.layer)
    /\ ret.state = firingrate
    /\ noise # Zeros(n)
    /\ \E i \in DOMAIN firingrate : firingrate[i] < 0
    /\ \E i \in DOMAIN firingrate : firingrate[i] > 0

\* the call read the stored firingrate of every input layer and called no
\* get_state ('last'), or called the get_state of every input layer with its
\* own arguments and read no stored firingrate (any other evaluate_at)
ReadsOrCallsUpstream ==
    IF ret.evaluate_at = "last"
    THEN ret.calls = {} /\ ret.reads = Upstream(ret.layer)
    ELSE /\ ret.reads = {}
         /\ \A up \in Upstream(ret.layer) :
                <<up, ret.evaluate_at, ret.kwargs>> \in ret.calls
\* the rates a layer gets in 'last' mode from the firingrate its input layers
\* hold now
FromStoredRates(k) ==
    LET self == Agent.Neurons[k]
        V == [r \in 1..self.n |->
                SumSeq([i \in DOMAIN self.inputs |->
                    SumSeq([c \in 1..self.inputs[i].n |->
                        self.inputs[i].w[r][c]
                            * layer_firingrate(Agent.Neurons, self.inputs[i].layer)[c]])])
                + self.biases[r]]
    IN [r \in 1..self.n |-> activate(V[r], self.activation)]
\* C26: in 'last' mode get_state reads the stored firingrate of each input
\* layer and calls no upstream get_state, so an update() before the input
\* layer's uses the rate the input layer holds from its previous update; with
\* any other evaluate_at it calls the get_state of each input layer with the
\* same evaluate_at and keyword arguments and reads no stored firingrate
C26_EvaluationModes ==
    /\ LayerCall("get_state") => ReadsOrCallsUpstream
    /\ LayerCall("update") =>
        /\ ReadsOrCallsUpstream
        /\ ret.raised = "none" /\ ret.state = FromStoredRates(ret.layer)
\* the same for the calls that pass the positions they evaluate at
EvaluationModesWithPositions ==
    /\ (/\ LayerCall("get_state")
        /\ (ret.evaluate_at \in {"last", "all"} \/ ret.kwargs.pos # << >>))
            => ReadsOrCallsUpstream /\ ret.raised = "none"
    /\ LayerCall("update") =>
        /\ ReadsOrCallsUpstream
        /\ ret.raised = "none" /\ ret.state = FromStoredRates(ret.layer)
\* get_state(evaluate_at='agent') of a layer with an input layer: no upstream
\* get_state was called
AgentModeRaises ==
    /\ LayerCall("get_state") /\ ret.evaluate_at = "agent"
    /\ Upstream(ret.layer) # {} /\ ret.calls = {} /\ ret.raised = "KeyError"
\* a layer was updated while its input layer held the rates of the Agent's
\* previous position
UpdatedBeforeUpstream ==
    /\ LayerCall("update") /\ ret.layer = 2
    /\ firingrate # PlaceCells_get_state(Agent.pos).value
    /\ noise = Zeros(n) /\ completed > 0
    /\ ret.state = FromStoredRates(2)

\* no population's firingrate_prime, firingrate, noise or history changes
CachesUnchanged ==
    /\ UNCHANGED <<firingrate, noise, history>>
    /\ \A k \in DOMAIN Agent.Neurons :
        /\ Agent'.Neurons[k].firingrate_prime = Agent.Neurons[k].firingrate_prime
        /\ Agent'.Neurons[k].firingrate = Agent.Neurons[k].firingrate
        /\ Agent'.Neurons[k].noise = Agent.Neurons[k].noise
        /\ Agent'.Neurons[k].history = Agent.Neurons[k].history
\* C27: a get_state of a layer in another mode than 'last' leaves
\* firingrate_prime, firingrate, noise and history of the layer and of every
\* upstream population as they were; firingrate_prime of a layer changes only
\* in an evaluation of that layer in 'last' mode
C27_NonLastLeavesCaches ==
    [][ /\ (/\ ret'.op = "get_state" /\ "layer" \in DOMAIN ret'
            /\ ret'.evaluate_at # "last") => CachesUnchanged
        /\ \A k \in DOMAIN Agent.Neurons :
            Agent'.Neurons[k].firingrate_prime # Agent.Neurons[k].firingrate_prime
                => /\ "layer" \in DOMAIN ret' /\ ret'.layer = k
                   /\ ret'.evaluate_at = "last" ]_vars
\* the output layer was evaluated over the Environment after it and the layer
\* that feeds it had stored a derivative: the call went through both layers and
\* left the derivatives
C27_Witness ==
    /\ LayerCall("get_state") /\ ret.evaluate_at = "all" /\ ret.layer = 3
    /\ ret.raised = "none"
    /\ <<2, "all", NoKwargs>> \in ret.calls /\ <<1, "all", NoKwargs>> \in ret.calls
    /\ Agent.Neurons[2].firingrate_prime = [i \in 1..Agent.Neurons[2].n |-> 1]
    /\ Agent.Neurons[3].firingrate_prime # Zeros(1)
    /\ Len(Agent.Neurons[2].inputs[1].I_temp) = n
    /\ Len(Agent.Neurons[2].inputs[1].I_temp[1]) = Len(flattened_discrete_coords)

\* the names the entries of a layer's inputs are stored under
InputNames(self) == {self.inputs[i].name : i \in DOMAIN self.inputs}
\* the entry of a layer's inputs stored under a name
InputNamed(self, name) ==
    self.inputs[CHOOSE i \in DOMAIN self.inputs : self.inputs[i].name = name]
\* the inputs of every layer have one entry per name
OneEntryPerName ==
    \A k \in Layers : \A i, j \in DOMAIN Agent.Neurons[k].inputs :
        Agent.Neurons[k].inputs[i].name = Agent.Neurons[k].inputs[j].name => i = j
\* an add_input step leaves an entry under the name of the layer added that
\* holds exactly the new layer, w, its copy w_init, a zero input and the new
\* keyword arguments; the other entries and the other populations are as before
AddsOrReplaces ==
    ret'.op = "add_input" =>
        LET old == Agent.Neurons[ret'.layer]
            new == Agent'.Neurons[ret'.layer]
            name == Agent.Neurons[ret'.input].name
        IN /\ ret'.raised = "none"
           /\ InputNames(new) = InputNames(old) \cup {name}
           /\ InputNamed(new, name) =
                [ name |-> name, layer |-> ret'.input, w |-> ret'.w,
                  w_init |-> ret'.w,
                  I |-> Zeros(layer_n(Agent.Neurons, ret'.input)),
                  n |-> layer_n(Agent.Neurons, ret'.input),
                  kwargs |-> ret'.kwargs, I_temp |-> << >> ]
           /\ \A other \in InputNames(old) \ {name} :
                InputNamed(new, other) = InputNamed(old, other)
           /\ \A k \in DOMAIN Agent.Neurons \ {ret'.layer} :
                Agent'.Neurons[k] = Agent.Neurons[k]
\* C22: the inputs of a layer hold one entry per name of a layer added, and an
\* add_input of a layer whose name is present replaces the entry's layer, w,
\* w_init and stored input with the new ones, merging nothing and raising
\* nothing
C22_OneConnectionPerName == [][AddsOrReplaces]_vars /\ []OneEntryPerName
\* the second layer, of the same name as the first, was added to the first
\* layer in place of the first layer itself, without the keyword argument the
\* entry had carried (or after an update had stored an input in it)
C22_Witness ==
    /\ ret.op = "add_input" /\ ret.layer = 2 /\ ret.input = 3
    /\ ret.replaced = {2} /\ ret.kwargs = {}
    /\ Len(Agent.Neurons[2].inputs) = 2
    /\ InputNamed(Agent.Neurons[2], "FeedForwardLayer").layer = 3
    /\ InputNamed(Agent.Neurons[2], "FeedForwardLayer").kwargs = {}
    /\ InputNamed(Agent.Neurons[2], "PlaceCells").kwargs = {<<"eta", 1>>}

\* C23: every weight matrix of a layer's inputs has as many rows as the layer
\* has cells and as many columns as the input layer has cells
C23_WeightShapes ==
    \A k \in Layers : \A i \in DOMAIN Agent.Neurons[k].inputs :
        LET entry == Agent.Neurons[k].inputs[i] IN
        /\ Len(entry.w) = Agent.Neurons[k].n
        /\ \A r \in DOMAIN entry.w :
            Len(entry.w[r]) = layer_n(Agent.Neurons, entry.layer)

RECURSIVE FeedsWithin(_, _)
\* the populations a layer is fed by through at most d connections
FeedsWithin(k, d) ==
    IF d = 0 THEN {}
    ELSE Upstream(k) \cup
         UNION {FeedsWithin(up, d - 1) :
                  up \in {u \in Upstream(k) : Agent.Neurons[u].kind = "FeedForwardLayer"}}
\* no layer is, directly or through other layers, its own input
Acyclic == \A k \in Layers : k \notin FeedsWithin(k, Len(Agent.Neurons))
\* C28: no sequence of add_input calls makes a layer its own input, directly or
\* through other layers, so that get_state over the Environment returns;
\* get_state in 'last' mode returns whatever the inputs are
C28_InputGraphAcyclic ==
    /\ Acyclic
    /\ LayerCall("get_state") => ret.raised # "RecursionError"
\* get_state in 'last' mode of a layer that is its own input returned
LastModeReturnsOnCycle ==
    /\ LayerCall("get_state") /\ ret.evaluate_at = "last" /\ ret.raised = "none"
    /\ ret.layer \in Upstream(ret.layer)
\* 'last' mode calls no get_state and never fails to return
LastModeNeverRecurses ==
    (LayerCall("get_state") /\ ret.evaluate_at = "last")
        => ret.raised = "none" /\ ret.calls = {}
\* get_state over the Environment of a layer fed by a layer which it feeds
\* ended in a RecursionError
RecursionOnCycle ==
    /\ LayerCall("get_state") /\ ret.evaluate_at = "all"
    /\ ret.raised = "RecursionError"
    /\ ret.layer \notin Upstream(ret.layer)
    /\ ret.layer \in FeedsWithin(ret.layer, 2)

\* a constructor call appended exactly the population it returned to
\* Agent.Neurons, and nothing when it raised
RegistersIffBuilt ==
    ret'.op = "__init__" =>
        IF ret'.raised = "none"
        THEN /\ Len(Agent'.Neurons) = Len(Agent.Neurons) + 1
             /\ SubSeq(Agent'.Neurons, 1, Len(Agent.Neurons)) = Agent.Neurons
             /\ Agent'.Neurons[Len(Agent'.Neurons)].kind = ret'.requested.kind
        ELSE Agent'.Neurons = Agent.Neurons
\* C30: every population a constructor returns is in Agent.Neurons exactly
\* once, and a constructor call that raises leaves Agent.Neurons as it was
C30_RegistrationAllOrNothing == [][RegistersIffBuilt]_vars
\* every population a constructor returned is in Agent.Neurons exactly once
BuiltRegisteredOnce ==
    (ret.op = "__init__" /\ ret.raised = "none")
        => /\ Len(Agent.Neurons) = 1
           /\ Agent.Neurons[1].kind = ret.requested.kind
\* a constructor raised after its object was appended to Agent.Neurons:
\* GridCells in a 1D Environment
GridCellsRegisteredIn1D ==
    /\ ret.op = "__init__" /\ ret.raised # "none"
    /\ ret.requested.kind = "GridCells" /\ Environment.dimensionality = "1D"
    /\ Len(Agent.Neurons) = 1 /\ Agent.Neurons[1].kind = "GridCells"
    /\ params.kind = "none"
\* the same for BoundaryVectorCells with periodic boundaries, for a
\* FeedForwardLayer whose input_layers is not a list, and for a
\* cell_arrangement of arrays of different lengths
BoundaryVectorCellsRegisteredPeriodic ==
    /\ ret.op = "__init__" /\ ret.raised # "none"
    /\ ret.requested.kind = "BoundaryVectorCells"
    /\ Environment.dimensionality = "2D"
    /\ Environment.boundary_conditions = "periodic"
    /\ EqualTuningArrays(ret.requested.cell_arrangement)
    /\ Len(Agent.Neurons) = 1
LayerRegisteredWithoutList ==
    /\ ret.op = "__init__" /\ ret.raised = "AssertionError"
    /\ ret.requested.kind = "FeedForwardLayer"
    /\ ret.requested.input_layers.type # "list"
    /\ Len(Agent.Neurons) = 1
ArrangementRegisteredInvalid ==
    /\ ret.op = "__init__" /\ ret.raised # "none"
    /\ ret.requested.kind = "ObjectVectorCells"
    /\ ~EqualTuningArrays(ret.requested.cell_arrangement)
    /\ Len(Agent.Neurons) = 1
\* the constructors that raise before Neurons.__init__ leave Agent.Neurons as
\* it was: the vector cells in a 1D Environment
VectorCellsUnregisteredIn1D ==
    /\ ret.op = "__init__" /\ ret.raised # "none"
    /\ ret.requested.kind \in {"BoundaryVectorCells", "ObjectVectorCells"}
    /\ Environment.dimensionality = "1D"
    /\ Agent.Neurons = << >>

=============================================================================
